---- MODULE Spec2Model ----
(***************************************************************************)
(* Model of the pharmacy invoice matcher: the learning store               *)
(* (modules/learning_engine.py), the v2 match loop                         *)
(* (match_invoice_elite.py) and the v1 match loop (match_invoice.py).      *)
(*                                                                         *)
(* Text is a sequence of one-character strings.  Confidences of the        *)
(* learning store are integers in thousandths (900 is 0.90).  Fused scores *)
(* are exact fractions [n, d].  Prices are integers in hundredths.         *)
(***************************************************************************)
EXTENDS Integers, Sequences, FiniteSets, TLC

VARIABLES
    learned_mappings,    \* table learned_mappings, rows in id order
    correction_history,  \* table correction_history, rows in id order
    last_call,           \* the last call made on the learning engine and what it returned
    pc,                  \* position of the running script: "idle", "lines"
    engine,              \* which script runs: "none", "elite", "legacy"
    master,              \* the catalog loaded by the running script
    invoice_input,       \* the invoice lines not yet processed
    rows,                \* the output records of the running script
    stats_counters,      \* the counters of the v2 script
    runs,                \* scripts started so far
    calls                \* learning-engine calls made so far from outside the scripts

vars == <<learned_mappings, correction_history, last_call, pc, engine, master,
          invoice_input, rows, stats_counters, runs, calls>>

-----------------------------------------------------------------------------
(* Values *)

\* a missing cell (pandas NaN) and SQL NULL / Python None; neither is a text
NaN == <<"<NaN>">>
NULL == <<"<NULL>">>

IsNa(x) == x = NaN

Max(a, b) == IF a >= b THEN a ELSE b
Min(a, b) == IF a <= b THEN a ELSE b
Abs(a) == IF a >= 0 THEN a ELSE 0 - a

-----------------------------------------------------------------------------
(* Text *)

Lower == <<"a","b","c","d","e","f","g","h","i","j","k","l","m",
           "n","o","p","q","r","s","t","u","v","w","x","y","z">>
Caps  == <<"A","B","C","D","E","F","G","H","I","J","K","L","M",
           "N","O","P","Q","R","S","T","U","V","W","X","Y","Z">>

\* str.upper() on one character
UpperChar(c) ==
    IF \E i \in DOMAIN Lower : Lower[i] = c
    THEN Caps[CHOOSE i \in DOMAIN Lower : Lower[i] = c]
    ELSE c

\* the characters clean() replaces by a space
CleanPunct == {"*", ",", ".", "-", "/", "(", ")", "%", "'", "\""}

Whitespace == {" ", "\t", "\n"}

\* str.split(): the maximal runs of non-whitespace characters, in order
RECURSIVE SplitFrom(_, _, _)
SplitFrom(s, i, word) ==
    IF i > Len(s)
    THEN IF word = <<>> THEN <<>> ELSE <<word>>
    ELSE IF s[i] \in Whitespace
         THEN IF word = <<>>
              THEN SplitFrom(s, i + 1, <<>>)
              ELSE <<word>> \o SplitFrom(s, i + 1, <<>>)
         ELSE SplitFrom(s, i + 1, Append(word, s[i]))

Split(s) == SplitFrom(s, 1, <<>>)

\* " ".join(words)
RECURSIVE Join(_)
Join(words) ==
    IF words = <<>> THEN <<>>
    ELSE IF Len(words) = 1 THEN words[1]
    ELSE words[1] \o <<" ">> \o Join(Tail(words))

\* sub in s
Contains(s, sub) ==
    \E i \in 0..(Len(s) - Len(sub)) : SubSeq(s, i + 1, i + Len(sub)) = sub

\* s.startswith(sub)
StartsWith(s, sub) ==
    Len(sub) <= Len(s) /\ SubSeq(s, 1, Len(sub)) = sub

\* a faulty clean: no pd.isna test, the missing value goes through str()
CleanWithoutNaTest(text) ==
    LET up == [i \in 1..Len(text) |-> UpperChar(text[i])]
        sp == [i \in 1..Len(text) |->
                   IF up[i] \in CleanPunct THEN " " ELSE up[i]]
    IN  Join(Split(sp))

\* clean(text): uppercase, the punctuation set to spaces, whitespace collapsed
clean(text) ==
    IF IsNa(text) THEN <<>>
    ELSE LET up == [i \in 1..Len(text) |-> UpperChar(text[i])]
             sp == [i \in 1..Len(text) |->
                        IF up[i] \in CleanPunct THEN " " ELSE up[i]]
         IN  Join(Split(sp))

\* simplify_supplier(text): clean, then the first two words
simplify_supplier(text) ==
    LET s == clean(text)
    IN  IF s = <<>> THEN <<>>
        ELSE LET parts == Split(s)
             IN  Join(SubSeq(parts, 1, Min(2, Len(parts))))

-----------------------------------------------------------------------------
(* Learning store: modules/learning_engine.py *)

\* confidence cap and per-confirmation step of add_learned_mapping, in thousandths
CONF_CAP == 980
CONF_STEP == 10
\* the confidence process_corrections_file passes, in thousandths
CORRECTION_CONFIDENCE == 900
\* LEARNING_CONFIDENCE_THRESHOLD, in thousandths
LEARNING_CONFIDENCE_THRESHOLD == 850

\* a faulty SELECT, "supplier_pattern = ?" alone: NULL equals nothing in SQL
ExistingIdsWithoutNullTest(table, invoice_pattern_clean, master_item_code, supplier_pattern) ==
    { i \in DOMAIN table :
        /\ table[i].invoice_pattern_clean = invoice_pattern_clean
        /\ table[i].master_item_code = master_item_code
        /\ supplier_pattern # NULL
        /\ table[i].supplier_pattern = supplier_pattern }

\* the rows the SELECT of add_learned_mapping matches, in id order
ExistingIds(table, invoice_pattern_clean, master_item_code, supplier_pattern) ==
    { i \in DOMAIN table :
        /\ table[i].invoice_pattern_clean = invoice_pattern_clean
        /\ table[i].master_item_code = master_item_code
        /\ table[i].supplier_pattern = supplier_pattern }

\* a faulty new_confidence, without the per-confirmation step: C6's formula
\* must tell it from NewConfidence
NewConfidenceWithoutStep(confidence, new_times_confirmed) ==
    Min(CONF_CAP, confidence)

\* new_confidence of the UPDATE branch
NewConfidence(confidence, new_times_confirmed) ==
    Min(CONF_CAP, confidence + new_times_confirmed * CONF_STEP)

\* the confidence the INSERT branch stores
InsertConfidence(confidence) == confidence

\* add_learned_mapping: the table after the call
add_learned_mapping(table, invoice_pattern_clean, master_item_code, master_item_name, supplier_pattern, confidence) ==
    LET ids == ExistingIds(table, invoice_pattern_clean, master_item_code,
                           supplier_pattern)
    IN  IF ids # {}
        THEN LET mapping_id == CHOOSE i \in ids : \A j \in ids : i <= j
                 new_times_confirmed == table[mapping_id].times_confirmed + 1
                 new_times_seen == table[mapping_id].times_seen + 1
             IN  [table EXCEPT ![mapping_id] =
                    [@ EXCEPT !.times_seen = new_times_seen,
                              !.times_confirmed = new_times_confirmed,
                              !.confidence =
                                  NewConfidence(confidence, new_times_confirmed)]]
        ELSE Append(table,
                    [invoice_pattern_clean |-> invoice_pattern_clean,
                     supplier_pattern |-> supplier_pattern,
                     master_item_code |-> master_item_code,
                     master_item_name |-> master_item_name,
                     confidence |-> InsertConfidence(confidence),
                     times_seen |-> 1,
                     times_confirmed |-> 1])

\* the rows the WHERE clause of lookup_learned_mapping keeps
LookupCandidates(table, invoice_name_clean, supplier_clean, min_confidence) ==
    IF supplier_clean # NULL /\ supplier_clean # <<>>
    THEN { i \in DOMAIN table :
             /\ table[i].invoice_pattern_clean = invoice_name_clean
             /\ (table[i].supplier_pattern = supplier_clean
                 \/ table[i].supplier_pattern = NULL)
             /\ table[i].confidence >= min_confidence }
    ELSE { i \in DOMAIN table :
             /\ table[i].invoice_pattern_clean = invoice_name_clean
             /\ table[i].confidence >= min_confidence }

\* a faulty ORDER BY, by confidence alone: C7's formula must tell it from
\* LookupBefore
LookupBeforeByConfidence(table, supplier_clean, i, j) ==
    table[i].confidence >= table[j].confidence

\* ORDER BY of lookup_learned_mapping: row i sorts no later than row j
LookupBefore(table, supplier_clean, i, j) ==
    IF supplier_clean # NULL /\ supplier_clean # <<>>
    THEN LET ki == IF table[i].supplier_pattern # NULL THEN 1 ELSE 0
             kj == IF table[j].supplier_pattern # NULL THEN 1 ELSE 0
         IN  \/ ki > kj
             \/ ki = kj /\ table[i].confidence >= table[j].confidence
    ELSE table[i].confidence >= table[j].confidence

\* the rows LIMIT 1 may return: SQL leaves the order among equal sort keys open
LookupFirst(table, invoice_name_clean, supplier_clean, min_confidence) ==
    LET c == LookupCandidates(table, invoice_name_clean, supplier_clean,
                              min_confidence)
    IN  { i \in c : \A j \in c : LookupBefore(table, supplier_clean, i, j) }

\* what lookup_learned_mapping returns when fetchone() finds no row
None == [learned |-> FALSE]

\* the dict lookup_learned_mapping builds from row i
LearnedOf(table, i) ==
    [item_code |-> table[i].master_item_code,
     item_name |-> table[i].master_item_name,
     confidence |-> table[i].confidence,
     times_seen |-> table[i].times_seen,
     times_confirmed |-> table[i].times_confirmed,
     learned |-> TRUE]

\* lookup_learned_mapping, given the row fetchone() produced (0: no row)
lookup_learned_mapping(table, row) ==
    IF row = 0 THEN None ELSE LearnedOf(table, row)

\* the rows fetchone() may produce for a lookup (0: no row)
LookupRows(table, invoice_name_clean, supplier_clean, min_confidence) ==
    LET f == LookupFirst(table, invoice_name_clean, supplier_clean, min_confidence)
    IN  IF f = {} THEN {0} ELSE f

-----------------------------------------------------------------------------
(* Numbers: Python floats as exact fractions [n, d] with d > 0; a missing or *)
(* unparsable number (None, NaN, "") is NoNum.                              *)

NoNum == [n |-> 0, d |-> 0]
\* float("nan")
NaNNum == [n |-> 0, d |-> 0 - 1]
IsNum(x) == x.d > 0

RECURSIVE Gcd(_, _)
Gcd(a, b) == IF b = 0 THEN a ELSE Gcd(b, a % b)

\* the fraction n/d in lowest terms, d > 0
R(n, d) ==
    LET g == Gcd(Abs(n), Abs(d))
        sg == IF d < 0 THEN 0 - 1 ELSE 1
    IN  [n |-> sg * (n \div g), d |-> sg * (d \div g)]

Lcm(a, b) == (a \div Gcd(a, b)) * b

RAdd(x, y) ==
    LET l == Lcm(x.d, y.d)
    IN  R(x.n * (l \div x.d) + y.n * (l \div y.d), l)
RNeg(x) == [n |-> 0 - x.n, d |-> x.d]
RSub(x, y) == RAdd(x, RNeg(y))
RMul(x, y) ==
    LET a == R(x.n, y.d)
        b == R(y.n, x.d)
    IN  [n |-> a.n * b.n, d |-> a.d * b.d]
RDiv(x, y) == RMul(x, R(y.d, y.n))
RLe(x, y) ==
    LET l == Lcm(x.d, y.d)
    IN  x.n * (l \div x.d) <= y.n * (l \div y.d)
RLt(x, y) == RLe(x, y) /\ x # y
RAbs(x) == [n |-> Abs(x.n), d |-> x.d]
RMax(x, y) == IF RLe(y, x) THEN x ELSE y
RMin(x, y) == IF RLe(x, y) THEN x ELSE y
Zero == R(0, 1)
One == R(1, 1)

\* round(x, 3) in thousandths: the nearest, a tie to the even one
Round3(x) ==
    LET t == x.n * 1000
        q == t \div x.d
        r2 == 2 * (t % x.d)
    IN  IF r2 < x.d THEN q
        ELSE IF r2 > x.d THEN q + 1
        ELSE IF q % 2 = 0 THEN q ELSE q + 1

-----------------------------------------------------------------------------
(* Price helpers of the scripts: match_invoice_elite.py, match_invoice.py *)

\* a faulty normalize_vat_rate: a value above 1 is taken for a rate as it is
NormalizeVatWithoutPercent(vat_raw) ==
    IF ~IsNum(vat_raw) THEN Zero
    ELSE IF RLt(vat_raw, Zero) THEN Zero
    ELSE vat_raw

\* normalize_vat_rate(vat_raw)
normalize_vat_rate(vat_raw) ==
    IF ~IsNum(vat_raw) THEN Zero
    ELSE IF RLt(vat_raw, Zero) THEN Zero
    ELSE IF RLe(vat_raw, One) THEN vat_raw
    ELSE RDiv(vat_raw, R(100, 1))

\* adjust_mrp_for_vat(mrp_invoice, vat_raw); NoNum is None
adjust_mrp_for_vat(mrp_invoice, vat_raw) ==
    IF mrp_invoice = NoNum THEN NoNum
    ELSE IF mrp_invoice = NaNNum THEN NaNNum
    ELSE IF RLe(mrp_invoice, Zero) THEN NoNum
    ELSE LET vat_rate == normalize_vat_rate(vat_raw)
         IN  IF RLe(vat_rate, Zero) THEN mrp_invoice
             ELSE RDiv(mrp_invoice, RAdd(One, vat_rate))

\* the effective unit price block of the main loop; unit_price_raw = NoNum
\* stands for a cell float() rejects
EffectiveUnitPrice(qty_raw, bonus_raw, unit_price_raw) ==
    LET qty_val == IF IsNum(qty_raw) THEN qty_raw ELSE Zero
        bonus_val == IF IsNum(bonus_raw) THEN bonus_raw ELSE Zero
        total_units == RAdd(qty_val, bonus_val)
    IN  IF unit_price_raw = NoNum THEN NoNum
        ELSE IF RLt(Zero, qty_val) /\ RLt(Zero, total_units)
             THEN IF unit_price_raw = NaNNum THEN NaNNum
                  ELSE RDiv(RMul(unit_price_raw, qty_val), total_units)
             ELSE NoNum

\* the cost bands shared by every cost score: ratio = inv / last
CostBand(inv, last) ==
    LET delta == RAbs(RSub(RDiv(inv, last), One))
    IN  IF RLe(delta, R(10, 100)) THEN One
        ELSE IF RLe(delta, R(40, 100)) THEN R(1, 2)
        ELSE Zero

\* _compute_cost_score / cost_score
compute_cost_score(effective_unit_price, pos_brate) ==
    IF effective_unit_price = NoNum \/ pos_brate = NoNum THEN Zero
    ELSE IF effective_unit_price = NaNNum \/ pos_brate = NaNNum THEN Zero
    ELSE IF RLe(effective_unit_price, Zero) \/ RLe(pos_brate, Zero) THEN Zero
    ELSE CostBand(effective_unit_price, pos_brate)

\* max(0.0, 1.0 - rel_diff * 3) for two numbers whose larger one is positive
MrpFormula(mi, mm) ==
    LET rel_diff == RDiv(RAbs(RSub(mi, mm)), RMax(mi, mm))
    IN  RMax(Zero, RSub(One, RMul(rel_diff, R(3, 1))))

\* _compute_mrp_score / mrp_score
compute_mrp_score(mrp_invoice_adj, mrp_master) ==
    IF mrp_invoice_adj = NoNum \/ mrp_master = NoNum THEN Zero
    ELSE IF mrp_invoice_adj = NaNNum \/ mrp_master = NaNNum THEN Zero
    ELSE IF RLe(mrp_invoice_adj, Zero) \/ RLe(mrp_master, Zero) THEN Zero
    ELSE MrpFormula(mrp_invoice_adj, mrp_master)

\* has_mrp of both scripts
HasMrp(mrp_invoice_adj, mrp_master) ==
    mrp_invoice_adj # NoNum /\ mrp_master # NoNum /\ mrp_master # NaNNum

\* the MRP comparison block of the main loop: mrp_status
MrpStatus(mrp_invoice_adj, mrp_master) ==
    IF HasMrp(mrp_invoice_adj, mrp_master) /\ RLt(Zero, mrp_master)
    THEN IF mrp_invoice_adj = NaNNum THEN "OVERCHARGED"
         ELSE LET delta_pct ==
                      RDiv(RAbs(RSub(mrp_invoice_adj, mrp_master)), mrp_master)
              IN  IF RLe(delta_pct, R(5, 100)) THEN "OK"
                  ELSE IF RLe(delta_pct, R(10, 100)) THEN "CHECK"
                  ELSE "OVERCHARGED"
    ELSE ""

\* a faulty flag block, on the score rounded as the Final_Score column is:
\* C10's formula must tell it from Flag
FlagOfRounded(fs) ==
    IF Round3(fs) >= 800 THEN "AUTO_OK"
    ELSE IF Round3(fs) >= 600 THEN "CHECK"
    ELSE "NO_MATCH"

\* the flag block of the main loop, on the unrounded final score
Flag(fs) ==
    IF RLe(R(80, 100), fs) THEN "AUTO_OK"
    ELSE IF RLe(R(60, 100), fs) THEN "CHECK"
    ELSE "NO_MATCH"

-----------------------------------------------------------------------------
(* The texts the model's input files are written with *)

T_Panadol == <<"P", "a", "n", "a", "d", "o", "l">>
T_PANADOL == <<"P", "A", "N", "A", "D", "O", "L">>
T_OzanexCream == <<"O", "z", "a", "n", "e", "x", " ", "c", "r", "e", "a", "m">>
T_OZANEX_CREAM == <<"O", "Z", "A", "N", "E", "X", " ", "C", "R", "E", "A", "M">>
T_DoseOnly == <<"5", "0", "0", "m", "g", " ", "t", "a", "b">>
T_Acme == <<"A", "c", "m", "e">>
T_AlMaqam == <<"A", "l", " ", "M", "a", "q", "a", "m">>
T_AlMaqamLLC == <<"A", "l", " ", "M", "a", "q", "a", "m", " ", "M", "e", "d", "i", "c", "a", "l", " ", "L", "L", "C">>
T_P1 == <<"P", "1">>
T_Z9 == <<"Z", "9">>
T_XX == <<"X", "X">>

\* the substrings alias_override tests for
T_NASAL == <<"N", "A", "S", "A", "L">>
T_OXYGEN == <<"O", "X", "Y", "G", "E", "N">>
T_CANNULA == <<"C", "A", "N", "N", "U", "L", "A">>
T_ADULT == <<"A", "D", "U", "L", "T">>
T_AL_MAQAM == <<"A", "L", " ", "M", "A", "Q", "A", "M">>
T_PREGNACARE == <<"P", "R", "E", "G", "N", "A", "C", "A", "R", "E">>
T_ORIGINAL == <<"O", "R", "I", "G", "I", "N", "A", "L">>
T_30 == <<"3", "0">>
T_OZANEX == <<"O", "Z", "A", "N", "E", "X">>

-----------------------------------------------------------------------------
(* Catalog, purchase history and the name-similarity values of the texts *)

ItemP1 == [code |-> T_P1, name |-> T_PANADOL,
           brate |-> R(100, 1), mrp_master |-> R(60000, 1)]
ItemZ9 == [code |-> T_Z9, name |-> T_OZANEX_CREAM,
           brate |-> R(5, 1), mrp_master |-> NaNNum]

\* invoice names and catalog names the override rules of match_invoice.py look for
T_Ozanex == <<"O", "z", "a", "n", "e", "x">>
T_PregnacareOzanex == <<"P", "r", "e", "g", "n", "a", "c", "a", "r", "e", " ", "O", "z", "a", "n", "e", "x">>
T_NasalCannulaAdult == <<"N", "a", "s", "a", "l", " ", "c", "a", "n", "n", "u", "l", "a", " ", "a", "d", "u", "l", "t">>
T_NASAL_OXYGEN_CANNULA_ADULT == <<"N", "A", "S", "A", "L", " ", "O", "X", "Y", "G", "E", "N", " ", "C", "A", "N", "N", "U", "L", "A", " ", "A", "D", "U", "L", "T">>
T_PREGNACARE_ORIGINAL_30 == <<"P", "R", "E", "G", "N", "A", "C", "A", "R", "E", " ", "O", "R", "I", "G", "I", "N", "A", "L", " ", "3", "0">>
T_N4 == <<"N", "4">>
T_G7 == <<"G", "7">>
ItemN4 == [code |-> T_N4, name |-> T_NASAL_OXYGEN_CANNULA_ADULT,
           brate |-> R(2, 1), mrp_master |-> R(60000, 1)]
ItemG7 == [code |-> T_G7, name |-> T_PREGNACARE_ORIGINAL_30,
           brate |-> R(40, 1), mrp_master |-> NaNNum]

\* a catalog row with dosage, form and pack size in its name, and an invoice
\* name that abbreviates it
T_PARACETAMOL_500MG_TAB_20S == <<"P", "A", "R", "A", "C", "E", "T", "A", "M", "O", "L", " ", "5", "0", "0", "M", "G", " ", "T", "A", "B", " ", "2", "0", "S">>
T_Paracet500MgTablets20s == <<"P", "A", "R", "A", "C", "E", "T", " ", "5", "0", "0", " ", "M", "G", " ", "T", "A", "B", "L", "E", "T", "S", " ", "2", "0", "'", "S">>
ItemParacetamol == [code |-> T_P1, name |-> T_PARACETAMOL_500MG_TAB_20S,
                    brate |-> R(1, 1), mrp_master |-> R(2, 1)]

\* the catalogs a run may load: MasterListNew.xlsx before and after an item is dropped
Masters == { <<ItemP1, ItemZ9>>, <<ItemP1>> }

\* PurchaseReport.xlsx after the header-row scan: item rows with their supplier
PurchaseRows ==
    { [Particulars |-> T_PANADOL, Supplier |-> T_AlMaqamLLC],
      [Particulars |-> T_PARACETAMOL_500MG_TAB_20S, Supplier |-> T_AlMaqamLLC],
      [Particulars |-> T_NASAL_OXYGEN_CANNULA_ADULT, Supplier |-> NaN] }

\* keys of last_purchase_global_idx and of last_purchase_by_supplier_idx
last_purchase_global_idx == { clean(r.Particulars) : r \in PurchaseRows }
last_purchase_by_supplier_idx ==
    { <<clean(r.Particulars), simplify_supplier(r.Supplier)>> : r \in PurchaseRows }

\* master[master['Item Code'] == code], as indices in catalog order
MasterMatch(m, code) == { i \in DOMAIN m : m[i].code = code }
FirstOf(ids) == CHOOSE i \in ids : \A j \in ids : i <= j

\* tokenize_smart(text)['clean_text'] is empty: nothing but dosage, form, pack
QueryTextEmpty(text) == clean(text) = clean(T_DoseOnly)

\* _compute_similarity_scores on the texts above (values of SequenceMatcher,
\* levenshtein_similarity, jaccard_similarity, phonetic_similarity and the
\* component bonus on them)
compute_similarity_scores(inv_name, cand_name) ==
    LET a == clean(inv_name)
        b == clean(cand_name)
    IN  IF a = b
        THEN [sequence_match |-> One, levenshtein |-> One, jaccard |-> One,
              phonetic |-> One,
              component_bonus |-> IF a = T_OZANEX_CREAM THEN R(1, 10) ELSE Zero]
        ELSE IF a = clean(T_Paracet500MgTablets20s) /\ b = T_PARACETAMOL_500MG_TAB_20S
        THEN \* tokenize_smart: tokens PARACETAMOL, 500, MG against PARACETAMOL;
             \* dosages 500MG on both sides, forms TABLET and TAB, both TAB
             \* after normalize_form: bonus 0.3 + 0.1
             [sequence_match |-> R(25, 28), levenshtein |-> R(11, 18),
              jaccard |-> R(1, 3), phonetic |-> R(1, 3),
              component_bonus |-> R(2, 5)]
        ELSE IF a = clean(T_DoseOnly)
        THEN [sequence_match |-> IF b = T_PANADOL THEN R(1, 8) ELSE R(2, 21),
              levenshtein |-> Zero, jaccard |-> Zero, phonetic |-> Zero,
              component_bonus |-> Zero]
        ELSE [sequence_match |-> R(6, 19), levenshtein |-> R(1, 7),
              jaccard |-> Zero, phonetic |-> Zero, component_bonus |-> Zero]

\* SequenceMatcher ratios of the override rules' texts: 2 * matched / total length
RatioTable ==
    LET oz == clean(T_Ozanex)
        po == clean(T_PregnacareOzanex)
        na == clean(T_NasalCannulaAdult)
        N == T_NASAL_OXYGEN_CANNULA_ADULT
        G == T_PREGNACARE_ORIGINAL_30
    IN  (<<oz, T_PANADOL>> :> R(4, 13)) @@ (<<oz, T_OZANEX_CREAM>> :> R(2, 3))
        @@ (<<oz, N>> :> R(3, 16)) @@ (<<oz, G>> :> R(1, 7))
        @@ (<<po, T_PANADOL>> :> R(1, 3)) @@ (<<po, T_OZANEX_CREAM>> :> R(12, 29))
        @@ (<<po, N>> :> R(12, 43)) @@ (<<po, G>> :> R(2, 3))
        @@ (<<na, T_PANADOL>> :> R(3, 13)) @@ (<<na, T_OZANEX_CREAM>> :> R(8, 31))
        @@ (<<na, N>> :> R(38, 45)) @@ (<<na, G>> :> R(10, 41))
        @@ (<<T_PANADOL, N>> :> R(10, 33)) @@ (<<T_PANADOL, G>> :> R(10, 29))
        @@ (<<T_OZANEX_CREAM, N>> :> R(5, 19)) @@ (<<T_OZANEX_CREAM, G>> :> R(3, 17))

\* SequenceMatcher(None, inv_name_clean, cand_clean_name).ratio() on the texts above
SequenceRatio(inv_name_clean, cand_clean_name) ==
    IF inv_name_clean = cand_clean_name THEN One
    ELSE IF <<inv_name_clean, cand_clean_name>> \in DOMAIN RatioTable
    THEN RatioTable[<<inv_name_clean, cand_clean_name>>]
    ELSE IF inv_name_clean = clean(T_DoseOnly)
    THEN IF cand_clean_name = T_PANADOL THEN R(1, 8) ELSE R(2, 21)
    ELSE R(6, 19)

-----------------------------------------------------------------------------
(* Ensemble of the v2 script: modules/advanced_matcher.py *)

\* a faulty compute_final_score: without a list price the weights of the
\* other signals are not raised
FinalScoreNotRedistributed(name_scores, supplier_score, mrp_score, cost_score, has_mrp) ==
    LET name_score ==
            RAdd(RMul(R(25, 100), name_scores.sequence_match),
            RAdd(RMul(R(20, 100), name_scores.levenshtein),
            RAdd(RMul(R(20, 100), name_scores.jaccard),
            RAdd(RMul(R(15, 100), name_scores.phonetic),
                 RMul(R(20, 100), name_scores.component_bonus)))))
    IN  RAdd(RMul(R(45, 100), name_score),
        RAdd(RMul(R(25, 100), supplier_score),
        RAdd(RMul(R(20, 100), IF has_mrp THEN mrp_score ELSE Zero),
             RMul(R(10, 100), cost_score))))

\* compute_final_score
compute_final_score(name_scores, supplier_score, mrp_score, cost_score, has_mrp) ==
    LET name_score ==
            RAdd(RMul(R(25, 100), name_scores.sequence_match),
            RAdd(RMul(R(20, 100), name_scores.levenshtein),
            RAdd(RMul(R(20, 100), name_scores.jaccard),
            RAdd(RMul(R(15, 100), name_scores.phonetic),
                 RMul(R(20, 100), name_scores.component_bonus)))))
    IN  IF has_mrp
        THEN RAdd(RMul(R(45, 100), name_score),
             RAdd(RMul(R(25, 100), supplier_score),
             RAdd(RMul(R(20, 100), mrp_score),
                  RMul(R(10, 100), cost_score))))
        ELSE RAdd(RMul(R(55, 100), name_score),
             RAdd(RMul(R(30, 100), supplier_score),
                  RMul(R(15, 100), cost_score)))

\* a faulty _compute_supplier_score: any purchase record of the item scores 1.0
SupplierScoreAnySupplier(clean_name, supplier_clean) ==
    IF clean_name \in last_purchase_global_idx THEN One ELSE Zero

\* _compute_supplier_score
compute_supplier_score(clean_name, supplier_clean) ==
    IF <<clean_name, supplier_clean>> \in last_purchase_by_supplier_idx THEN One
    ELSE IF clean_name \in last_purchase_global_idx THEN R(1, 2)
    ELSE Zero

\* _empty_result
empty_result ==
    [item_code |-> NULL, item_name |-> NULL, mrp_master |-> NoNum,
     supplier_score |-> Zero, mrp_score |-> Zero, cost_score |-> Zero,
     final_score |-> Zero, has_mrp |-> FALSE]

\* the body of match_item's loop for one candidate: the dict best.update() writes
MatchCandidate(invoice_name, supplier_clean, effective_unit_price, mrp_invoice_adj, candidate) ==
    LET name_scores == compute_similarity_scores(invoice_name, candidate.name)
        supplier_score == compute_supplier_score(clean(candidate.name), supplier_clean)
        has_mrp == HasMrp(mrp_invoice_adj, candidate.mrp_master)
        mrp_score == IF has_mrp
                     THEN compute_mrp_score(mrp_invoice_adj, candidate.mrp_master)
                     ELSE Zero
        cost_score == compute_cost_score(effective_unit_price, candidate.brate)
    IN  [item_code |-> candidate.code, item_name |-> candidate.name,
         mrp_master |-> candidate.mrp_master,
         supplier_score |-> supplier_score, mrp_score |-> mrp_score,
         cost_score |-> cost_score,
         final_score |-> compute_final_score(name_scores, supplier_score,
                                             mrp_score, cost_score, has_mrp),
         has_mrp |-> has_mrp]

\* a faulty comparison, >= for >: among equal scores the last one is kept
BetterOrEqual(cand, best) == RLe(best.final_score, cand.final_score)

\* "if final_score > best['final_score']": the candidate replaces best
Better(cand, best) == RLt(best.final_score, cand.final_score)

\* lp_row.get('Supplier', '') of _get_purchase_history's rows: the supplier of
\* the item's purchase from this supplier, else of its purchase from anyone,
\* else ''
LastSup(clean_name, supplier_clean) ==
    LET last_sup_row == { r \in PurchaseRows :
                            /\ clean(r.Particulars) = clean_name
                            /\ simplify_supplier(r.Supplier) = supplier_clean }
        last_global_row == { r \in PurchaseRows : clean(r.Particulars) = clean_name }
    IN  IF last_sup_row # {} THEN (CHOOSE r \in last_sup_row : TRUE).Supplier
        ELSE IF last_global_row # {} THEN (CHOOSE r \in last_global_row : TRUE).Supplier
        ELSE <<>>

\* 'name_scores': {} of a best that no candidate has replaced
NoScores ==
    [sequence_match |-> NoNum, levenshtein |-> NoNum, jaccard |-> NoNum,
     phonetic |-> NoNum, component_bonus |-> NoNum]

\* the values match_item's loop body holds for one candidate
MatchEvaluation(invoice_name, supplier_clean, effective_unit_price, mrp_invoice_adj, candidate) ==
    MatchCandidate(invoice_name, supplier_clean, effective_unit_price,
                   mrp_invoice_adj, candidate)
        @@ [name_scores |-> compute_similarity_scores(invoice_name, candidate.name),
            last_sup |-> LastSup(clean(candidate.name), supplier_clean)]

\* a faulty update: the supplier score and the last supplier of best are kept
UpdateBestKeepingSupplier(best, cand) ==
    [best EXCEPT !.item_code = cand.item_code,
                 !.item_name = cand.item_name,
                 !.mrp_master = cand.mrp_master,
                 !.name_scores = cand.name_scores,
                 !.mrp_score = cand.mrp_score,
                 !.cost_score = cand.cost_score,
                 !.final_score = cand.final_score,
                 !.has_mrp = cand.has_mrp]

\* best.update({...}) of match_item
UpdateBest(best, cand) ==
    [best EXCEPT !.item_code = cand.item_code,
                 !.item_name = cand.item_name,
                 !.mrp_master = cand.mrp_master,
                 !.name_scores = cand.name_scores,
                 !.supplier_score = cand.supplier_score,
                 !.mrp_score = cand.mrp_score,
                 !.cost_score = cand.cost_score,
                 !.final_score = cand.final_score,
                 !.has_mrp = cand.has_mrp,
                 !.last_sup = cand.last_sup]

RECURSIVE MatchLoop(_, _, _, _, _, _, _)
MatchLoop(m, candidate_indices, best, invoice_name, supplier_clean, effective_unit_price, mrp_invoice_adj) ==
    IF candidate_indices = <<>> THEN best
    ELSE LET cand == MatchEvaluation(invoice_name, supplier_clean,
                                     effective_unit_price, mrp_invoice_adj,
                                     m[Head(candidate_indices)])
         IN  MatchLoop(m, Tail(candidate_indices),
                       IF Better(cand, best) THEN UpdateBest(best, cand) ELSE best,
                       invoice_name, supplier_clean, effective_unit_price,
                       mrp_invoice_adj)

\* match_item, given the candidate order find_candidates_tfidf produced
match_item(m, candidate_indices, invoice_name, supplier_clean, effective_unit_price, mrp_invoice_adj) ==
    IF candidate_indices = <<>> THEN empty_result
    ELSE MatchLoop(m, candidate_indices,
                   [empty_result EXCEPT !.final_score = R(0 - 1, 1)]
                       @@ [name_scores |-> NoScores, last_sup |-> <<>>],
                   invoice_name, supplier_clean, effective_unit_price,
                   mrp_invoice_adj)

\* the orders find_candidates_tfidf may return: nothing for an empty query text,
\* else the whole catalog (it has at most top_k items) by descending similarity
CandidateOrders(m, invoice_name) ==
    IF QueryTextEmpty(invoice_name) THEN { <<>> }
    ELSE { o \in [1..Len(m) -> 1..Len(m)] :
             \A i, j \in 1..Len(m) : i # j => o[i] # o[j] }

-----------------------------------------------------------------------------
(* The v1 script: match_invoice.py *)

\* compute_scores_for_candidate: the dict find_best_item and build_result keep
compute_scores_for_candidate(inv_name_clean, supplier_clean, effective_unit_price, mrp_invoice_adj, cand_row) ==
    LET cand_clean_name == clean(cand_row.name)
        base_name_s == SequenceRatio(inv_name_clean, cand_clean_name)
        supp_s == compute_supplier_score(cand_clean_name, supplier_clean)
        cost_s == IF cand_row.brate # NoNum /\ cand_row.brate # NaNNum
                     /\ effective_unit_price # NoNum
                  THEN compute_cost_score(effective_unit_price, cand_row.brate)
                  ELSE Zero
        has_mrp == HasMrp(mrp_invoice_adj, cand_row.mrp_master)
        mrp_s == IF has_mrp
                 THEN compute_mrp_score(mrp_invoice_adj, cand_row.mrp_master)
                 ELSE Zero
        final == IF has_mrp
                 THEN RAdd(RMul(R(50, 100), base_name_s),
                      RAdd(RMul(R(25, 100), supp_s),
                      RAdd(RMul(R(20, 100), mrp_s),
                           RMul(R(5, 100), cost_s))))
                 ELSE RAdd(RMul(R(625, 1000), base_name_s),
                      RAdd(RMul(R(3125, 10000), supp_s),
                           RMul(R(625, 10000), cost_s)))
    IN  [item_code |-> cand_row.code, item_name |-> cand_row.name,
         mrp_master |-> cand_row.mrp_master,
         supplier_score |-> supp_s, mrp_score |-> mrp_s, cost_score |-> cost_s,
         final_score |-> final, has_mrp |-> has_mrp]

\* raw_scores.nlargest(TOP_K_CANDIDATES).index: the catalog by descending name
\* ratio, equal ratios in catalog order (the catalog has at most TOP_K items)
RECURSIVE NLargest(_, _, _)
NLargest(m, inv_name_clean, left) ==
    IF left = {} THEN <<>>
    ELSE LET ratio(i) == SequenceRatio(inv_name_clean, clean(m[i].name))
             top == CHOOSE i \in left :
                      \A j \in left :
                          \/ RLt(ratio(j), ratio(i))
                          \/ ratio(j) = ratio(i) /\ i <= j
         IN  <<top>> \o NLargest(m, inv_name_clean, left \ {top})

RECURSIVE BestLoop(_, _, _, _, _, _, _)
BestLoop(m, top_idx, best, inv_name_clean, supplier_clean, effective_unit_price, mrp_invoice_adj) ==
    IF top_idx = <<>> THEN best
    ELSE LET cand == compute_scores_for_candidate(inv_name_clean, supplier_clean,
                         effective_unit_price, mrp_invoice_adj, m[Head(top_idx)])
         IN  BestLoop(m, Tail(top_idx),
                      IF Better(cand, best) THEN cand ELSE best,
                      inv_name_clean, supplier_clean, effective_unit_price,
                      mrp_invoice_adj)

\* find_best_item
find_best_item(m, inv_name_clean, supplier_clean, effective_unit_price, mrp_invoice_adj) ==
    BestLoop(m, NLargest(m, inv_name_clean, DOMAIN m),
             [empty_result EXCEPT !.final_score = R(0 - 1, 1)],
             inv_name_clean, supplier_clean, effective_unit_price, mrp_invoice_adj)

\* search_by_substrings: indices of the rows whose CleanName contains them all
search_by_substrings(m, substrings) ==
    { i \in DOMAIN m : \A sub \in substrings : Contains(clean(m[i].name), sub) }

\* the rule of alias_override that fires: the substrings it searches the
\* catalog for, or {} when no rule's condition and search succeed
AliasRule(m, inv_name_clean, supplier_clean) ==
    LET nasal == {T_NASAL, T_OXYGEN, T_CANNULA, T_ADULT}
        pregna == {T_PREGNACARE, T_ORIGINAL, T_30}
        ozanex == {T_OZANEX}
    IN  IF /\ Contains(inv_name_clean, T_NASAL)
           /\ Contains(inv_name_clean, T_CANNULA)
           /\ Contains(inv_name_clean, T_ADULT)
           /\ StartsWith(supplier_clean, T_AL_MAQAM)
           /\ search_by_substrings(m, nasal) # {}
        THEN nasal
        ELSE IF /\ Contains(inv_name_clean, T_PREGNACARE)
                /\ search_by_substrings(m, pregna) # {}
        THEN pregna
        ELSE IF /\ Contains(inv_name_clean, T_OZANEX)
                /\ search_by_substrings(m, ozanex) # {}
        THEN ozanex
        ELSE {}

\* a faulty build_result: the fused score is emitted as it is
BuildResultNotRaised(inv_name_clean, supplier_clean, effective_unit_price, mrp_invoice_adj, row) ==
    compute_scores_for_candidate(inv_name_clean, supplier_clean,
        effective_unit_price, mrp_invoice_adj, row)

\* build_result: the forced candidate's scores, final raised to at least 0.85
build_result(inv_name_clean, supplier_clean, effective_unit_price, mrp_invoice_adj, row) ==
    LET r == compute_scores_for_candidate(inv_name_clean, supplier_clean,
                 effective_unit_price, mrp_invoice_adj, row)
    IN  [r EXCEPT !.final_score = RMax(r.final_score, R(85, 100))]

\* alias_override; None is NULL
alias_override(m, inv_name_clean, supplier_clean, effective_unit_price, mrp_invoice_adj) ==
    LET rule == AliasRule(m, inv_name_clean, supplier_clean)
    IN  IF rule = {} THEN NULL
        ELSE build_result(inv_name_clean, supplier_clean, effective_unit_price,
                          mrp_invoice_adj, m[FirstOf(search_by_substrings(m, rule))])

-----------------------------------------------------------------------------
(* process_corrections_file: modules/learning_engine.py *)

RequiredColumns == {"Invoice_Item_Name", "Suggested_Item_Code", "Corrected_Item_Code"}

\* a faulty filter: every row with a corrected code is taken for a correction
IsCorrectionWhenPresent(row) == ~IsNa(row.Corrected_Item_Code)

\* the filter "corrected is present and differs from suggested"
IsCorrection(row) ==
    /\ ~IsNa(row.Corrected_Item_Code)
    /\ row.Corrected_Item_Code # row.Suggested_Item_Code

\* a faulty record_correction: the entry replaces what the audit table held
RecordCorrectionReplacing(history, invoice_item_name, supplier_name, suggested_item_code, corrected_item_code, corrected_item_name) ==
    <<[invoice_item_name |-> invoice_item_name,
       supplier_name |-> supplier_name,
       suggested_item_code |-> suggested_item_code,
       corrected_item_code |-> corrected_item_code,
       corrected_item_name |-> corrected_item_name]>>

\* record_correction: the audit table after the INSERT
record_correction(history, invoice_item_name, supplier_name, suggested_item_code, corrected_item_code, corrected_item_name) ==
    Append(history,
           [invoice_item_name |-> invoice_item_name,
            supplier_name |-> supplier_name,
            suggested_item_code |-> suggested_item_code,
            corrected_item_code |-> corrected_item_code,
            corrected_item_name |-> corrected_item_name])

\* clean_func(supplier_name) if supplier_name else None
SupplierPattern(supplier_name) ==
    IF supplier_name # <<>> THEN clean(supplier_name) ELSE NULL

\* the row loop of process_corrections_file over the filtered rows
RECURSIVE CorrectionsLoop(_, _)
CorrectionsLoop(st, todo) ==
    IF todo = <<>> THEN st
    ELSE LET row == Head(todo)
             invoice_name == row.Invoice_Item_Name
             supplier_name == IF "Supplier_Name" \in st.columns
                              THEN row.Supplier_Name ELSE <<>>
             corrected_code == row.Corrected_Item_Code
             master_match == MasterMatch(st.master, corrected_code)
         IN  IF master_match = {}
             THEN CorrectionsLoop(st, Tail(todo))
             ELSE LET corrected_name == st.master[FirstOf(master_match)].name
                      invoice_clean == clean(invoice_name)
                      supplier_clean == SupplierPattern(supplier_name)
                  IN  CorrectionsLoop(
                        [st EXCEPT
                           !.history = record_correction(@, invoice_name,
                                           supplier_name, row.Suggested_Item_Code,
                                           corrected_code, corrected_name),
                           !.table = add_learned_mapping(@, invoice_clean,
                                           corrected_code, corrected_name,
                                           supplier_clean, CORRECTION_CONFIDENCE),
                           !.count = @ + 1],
                        Tail(todo))

\* a faulty process_corrections_file: the rows skipped for an unknown code
\* are counted with the others
ProcessCountingSkipped(table, history, file, m) ==
    LET st0 == [table |-> table, history |-> history, count |-> 0,
                master |-> m, columns |-> file.columns]
        todo == SelectSeq(file.rows, IsCorrection)
    IN  IF ~file.exists \/ ~(RequiredColumns \subseteq file.columns)
        THEN st0
        ELSE [CorrectionsLoop(st0, todo) EXCEPT !.count = Len(todo)]

\* process_corrections_file: the two tables after the call and the count it returns
process_corrections_file(table, history, file, m) ==
    LET st0 == [table |-> table, history |-> history, count |-> 0,
                master |-> m, columns |-> file.columns]
    IN  IF ~file.exists \/ ~(RequiredColumns \subseteq file.columns)
        THEN st0
        ELSE CorrectionsLoop(st0, SelectSeq(file.rows, IsCorrection))

-----------------------------------------------------------------------------
(* Input files *)

AllColumns == RequiredColumns \cup {"Supplier_Name"}

CorrectionRow(name, supplier, suggested, corrected) ==
    [Invoice_Item_Name |-> name, Supplier_Name |-> supplier,
     Suggested_Item_Code |-> suggested, Corrected_Item_Code |-> corrected]

CorrectionsOf(rws) == [exists |-> TRUE, columns |-> AllColumns, rows |-> rws]

K_Acme == CorrectionRow(T_Panadol, T_Acme, T_Z9, T_P1)
K_Two == CorrectionRow(T_Panadol, T_AlMaqam, T_Z9, T_P1)
K_LLC == CorrectionRow(T_Panadol, T_AlMaqamLLC, T_Z9, T_P1)
K_NoSupplier == CorrectionRow(T_Panadol, NaN, T_Z9, T_P1)
K_ToZ9 == CorrectionRow(T_Panadol, T_Acme, T_P1, T_Z9)
K_NoOp == CorrectionRow(T_Panadol, T_Acme, T_P1, T_P1)
K_Unknown == CorrectionRow(T_OzanexCream, T_Acme, T_P1, T_XX)
K_Missing == CorrectionRow(T_Panadol, T_Acme, T_P1, NaN)

\* data/match_corrections.xlsx: absent, or one of these contents
CorrectionFiles ==
    { [exists |-> FALSE, columns |-> {}, rows |-> <<>>],
      CorrectionsOf(<<K_Acme>>), CorrectionsOf(<<K_Two>>),
      CorrectionsOf(<<K_LLC>>), CorrectionsOf(<<K_NoSupplier>>),
      CorrectionsOf(<<K_ToZ9>>), CorrectionsOf(<<K_NoOp, K_Unknown>>),
      [exists |-> TRUE, columns |-> RequiredColumns, rows |-> <<K_Acme>>] }

\* an invoice line: ten units at the catalog cost of PANADOL, no bonus, no VAT
Line(name, supplier, mrp) ==
    [Invoice_Item_Name |-> name, Supplier_Name |-> supplier,
     Qty |-> R(10, 1), Bonus |-> Zero, Unit_Price |-> R(100, 1),
     MRP_Invoice |-> mrp, VAT |-> Zero]

L_Auto == Line(T_Panadol, T_AlMaqamLLC, R(49000, 1))
L_JustBelowAuto == Line(T_Panadol, T_AlMaqamLLC, R(489999, 10))
L_Check == Line(T_Panadol, T_Acme, R(41500, 1))
L_JustBelowCheck == Line(T_Panadol, T_Acme, R(414999, 10))
L_Rounds == Line(T_Panadol, T_AlMaqam, R(48960, 1))
L_NoSupplier == [Line(T_Panadol, NaN, R(63000, 1)) EXCEPT !.VAT = R(5, 1)]
L_NoMrp == Line(T_Panadol, T_AlMaqam, NaNNum)
L_Ozanex == Line(T_OzanexCream, T_Acme, NaNNum)
L_NoName == Line(NaN, T_Acme, NaNNum)
L_DoseOnly == Line(T_DoseOnly, T_Acme, NaNNum)

\* a line whose quantity, unit price, list price and tax cells float() rejects,
\* one whose bonus, unit price and tax cells are blank, one named by punctuation only
T_Dash == <<"-", " ", "-">>
L_BadFields ==
    [Line(T_Panadol, T_Acme, NoNum) EXCEPT
        !.Qty = NoNum, !.Unit_Price = NoNum, !.VAT = NoNum]
L_BlankFields ==
    [Line(T_Panadol, T_AlMaqam, NaNNum) EXCEPT
        !.Bonus = NaNNum, !.Unit_Price = NaNNum, !.VAT = NaNNum]
L_Punct == Line(T_Dash, T_Acme, NaNNum)

\* the Invoice_Input sheets a run may read
InvoiceFiles ==
    { <<L_Auto, L_JustBelowAuto, L_Check, L_JustBelowCheck>>,
      <<L_NoSupplier, L_Rounds>>, <<L_NoMrp, L_Ozanex>>,
      <<L_NoName, L_DoseOnly>>,
      <<L_BadFields, L_NoName, L_DoseOnly, L_Punct, L_BlankFields>> }

-----------------------------------------------------------------------------
(* The main loops *)

\* bounds of the model
MaxRuns == 2
MaxCalls == 3
MaxIngest == 10

NoCall == [op |-> "none"]
NoCounters == [total |-> 0, learned |-> 0, auto_ok |-> 0, check |-> 0, no_match |-> 0]

\* the cost score block of the learned branch
LearnedCostScore(effective_unit_price, brate) ==
    IF effective_unit_price = NoNum \/ effective_unit_price = Zero
       \/ brate = NoNum \/ brate = Zero
    THEN Zero
    ELSE IF effective_unit_price = NaNNum \/ brate = NaNNum THEN Zero
    ELSE CostBand(effective_unit_price, brate)

\* the MRP score block of the learned branch
LearnedMrpScore(mrp_invoice_adj, mrp_master) ==
    IF mrp_invoice_adj = NaNNum THEN Zero
    ELSE MrpFormula(mrp_invoice_adj, mrp_master)

\* the dict the learned branch builds from the mapping and its catalog row
LearnedBest(learned, master_row, supplier_clean, effective_unit_price, mrp_invoice_adj) ==
    LET has_mrp == HasMrp(mrp_invoice_adj, master_row.mrp_master)
    IN  [item_code |-> learned.item_code, item_name |-> learned.item_name,
         mrp_master |-> master_row.mrp_master,
         supplier_score |-> IF supplier_clean # <<>> THEN One ELSE R(1, 2),
         mrp_score |-> IF has_mrp
                       THEN LearnedMrpScore(mrp_invoice_adj, master_row.mrp_master)
                       ELSE Zero,
         cost_score |-> LearnedCostScore(effective_unit_price, master_row.brate),
         final_score |-> R(learned.confidence, 1000),
         has_mrp |-> has_mrp]

\* the learned branch leaves best set: a mapping was found and its code is in the catalog
LearnedUsable(m, learned) ==
    learned.learned /\ MasterMatch(m, learned.item_code) # {}

\* the columns both scripts write for one line; fs, stages, found and
\* decided_by are not columns: they keep the unrounded score, the stages run
\* in order, the stages that produced a result and the stage whose result is
\* in the record
OutputRow(inv_row, best, mrp_invoice_adj, stages, found, decided_by) ==
    [Invoice_Item_Name |-> inv_row.Invoice_Item_Name,
     Supplier_Name |-> inv_row.Supplier_Name,
     MRP_Status |-> MrpStatus(mrp_invoice_adj, best.mrp_master),
     Suggested_Item_Code |-> best.item_code,
     Suggested_Item_Name |-> best.item_name,
     Supplier_Score |-> Round3(best.supplier_score),
     MRP_Score |-> Round3(best.mrp_score),
     Cost_Score |-> Round3(best.cost_score),
     Final_Score |-> Round3(best.final_score),
     Flag_AUTO_OK_or_CHECK |-> Flag(best.final_score),
     fs |-> best.final_score,
     stages |-> stages,
     found |-> found,
     decided_by |-> decided_by]

\* the record match_invoice_elite.py writes: the common columns and Learned_Match
EliteRow(inv_row, best, mrp_invoice_adj, learned_match, stages, found, decided_by) ==
    OutputRow(inv_row, best, mrp_invoice_adj, stages, found, decided_by)
        @@ [Learned_Match |-> IF learned_match THEN "YES" ELSE "NO"]

\* stats_counters after a line flagged `flag`
CountFlag(counters, flag) ==
    IF flag = "AUTO_OK" THEN [counters EXCEPT !.auto_ok = @ + 1]
    ELSE IF flag = "CHECK" THEN [counters EXCEPT !.check = @ + 1]
    ELSE [counters EXCEPT !.no_match = @ + 1]

\* match_invoice_elite.py from its start to the end of process_corrections_file
EliteStart(m, corrections, invoice) ==
    /\ pc = "idle"
    /\ runs < MaxRuns
    /\ LET st == process_corrections_file(learned_mappings, correction_history,
                                          corrections, m)
       IN  /\ learned_mappings' = st.table
           /\ correction_history' = st.history
    /\ engine' = "elite"
    /\ master' = m
    /\ invoice_input' = invoice
    /\ rows' = <<>>
    /\ stats_counters' = NoCounters
    /\ pc' = "lines"
    /\ runs' = runs + 1
    /\ UNCHANGED <<last_call, calls>>

\* a faulty iteration: the mappings of the line's name are marked as seen again
EliteLineCountingSeen ==
    /\ pc = "lines"
    /\ engine = "elite"
    /\ invoice_input # <<>>
    /\ LET inv_row == Head(invoice_input)
           inv_name_clean == clean(inv_row.Invoice_Item_Name)
           supplier_clean == simplify_supplier(inv_row.Supplier_Name)
           mrp_invoice_adj == adjust_mrp_for_vat(inv_row.MRP_Invoice, inv_row.VAT)
           effective_unit_price ==
               EffectiveUnitPrice(inv_row.Qty, inv_row.Bonus, inv_row.Unit_Price)
           counted == [stats_counters EXCEPT !.total = @ + 1]
       IN  IF inv_name_clean = <<>>
           THEN /\ rows' = rows
                /\ stats_counters' = counted
           ELSE \E lrow \in LookupRows(learned_mappings, inv_name_clean,
                                       supplier_clean, LEARNING_CONFIDENCE_THRESHOLD),
                   candidate_indices \in CandidateOrders(master,
                                                         inv_row.Invoice_Item_Name) :
                  LET learned == lookup_learned_mapping(learned_mappings, lrow)
                      learned_match == learned.learned
                      usable == LearnedUsable(master, learned)
                      best ==
                          IF usable
                          THEN LearnedBest(learned,
                                   master[FirstOf(MasterMatch(master, learned.item_code))],
                                   supplier_clean, effective_unit_price,
                                   mrp_invoice_adj)
                          ELSE match_item(master, candidate_indices,
                                   inv_row.Invoice_Item_Name, supplier_clean,
                                   effective_unit_price, mrp_invoice_adj)
                      row == EliteRow(inv_row, best, mrp_invoice_adj, learned_match,
                                 IF usable THEN <<"learned">>
                                 ELSE <<"learned", "ensemble">>,
                                 IF learned.learned THEN {"learned"} ELSE {},
                                 IF usable THEN "learned" ELSE "ensemble")
                  IN  /\ rows' = Append(rows, row)
                      /\ stats_counters' =
                            CountFlag(IF learned_match
                                      THEN [counted EXCEPT !.learned = @ + 1]
                                      ELSE counted,
                                      row.Flag_AUTO_OK_or_CHECK)
    /\ invoice_input' = Tail(invoice_input)
    /\ learned_mappings' =
          [i \in DOMAIN learned_mappings |->
              IF learned_mappings[i].invoice_pattern_clean
                    = clean(Head(invoice_input).Invoice_Item_Name)
              THEN [learned_mappings[i] EXCEPT !.times_seen = @ + 1]
              ELSE learned_mappings[i]]
    /\ UNCHANGED <<correction_history, last_call, pc, engine, master, runs, calls>>

\* one iteration of the main loop of match_invoice_elite.py
EliteLine ==
    /\ pc = "lines"
    /\ engine = "elite"
    /\ invoice_input # <<>>
    /\ LET inv_row == Head(invoice_input)
           inv_name_clean == clean(inv_row.Invoice_Item_Name)
           supplier_clean == simplify_supplier(inv_row.Supplier_Name)
           mrp_invoice_adj == adjust_mrp_for_vat(inv_row.MRP_Invoice, inv_row.VAT)
           effective_unit_price ==
               EffectiveUnitPrice(inv_row.Qty, inv_row.Bonus, inv_row.Unit_Price)
           counted == [stats_counters EXCEPT !.total = @ + 1]
       IN  IF inv_name_clean = <<>>
           THEN /\ rows' = rows
                /\ stats_counters' = counted
           ELSE \E lrow \in LookupRows(learned_mappings, inv_name_clean,
                                       supplier_clean, LEARNING_CONFIDENCE_THRESHOLD),
                   candidate_indices \in CandidateOrders(master,
                                                         inv_row.Invoice_Item_Name) :
                  LET learned == lookup_learned_mapping(learned_mappings, lrow)
                      learned_match == learned.learned
                      usable == LearnedUsable(master, learned)
                      best ==
                          IF usable
                          THEN LearnedBest(learned,
                                   master[FirstOf(MasterMatch(master, learned.item_code))],
                                   supplier_clean, effective_unit_price,
                                   mrp_invoice_adj)
                          ELSE match_item(master, candidate_indices,
                                   inv_row.Invoice_Item_Name, supplier_clean,
                                   effective_unit_price, mrp_invoice_adj)
                      row == EliteRow(inv_row, best, mrp_invoice_adj, learned_match,
                                 IF usable THEN <<"learned">>
                                 ELSE <<"learned", "ensemble">>,
                                 IF learned.learned THEN {"learned"} ELSE {},
                                 IF usable THEN "learned" ELSE "ensemble")
                  IN  /\ rows' = Append(rows, row)
                      /\ stats_counters' =
                            CountFlag(IF learned_match
                                      THEN [counted EXCEPT !.learned = @ + 1]
                                      ELSE counted,
                                      row.Flag_AUTO_OK_or_CHECK)
    /\ invoice_input' = Tail(invoice_input)
    /\ UNCHANGED <<learned_mappings, correction_history, last_call, pc, engine,
                   master, runs, calls>>

\* match_invoice.py from its start to the end of loading
LegacyStart(m, invoice) ==
    /\ pc = "idle"
    /\ runs < MaxRuns
    /\ engine' = "legacy"
    /\ master' = m
    /\ invoice_input' = invoice
    /\ rows' = <<>>
    /\ stats_counters' = NoCounters
    /\ pc' = "lines"
    /\ runs' = runs + 1
    /\ UNCHANGED <<learned_mappings, correction_history, last_call, calls>>

\* one iteration of the main loop of match_invoice.py
LegacyLine ==
    /\ pc = "lines"
    /\ engine = "legacy"
    /\ invoice_input # <<>>
    /\ LET inv_row == Head(invoice_input)
           inv_name_clean == clean(inv_row.Invoice_Item_Name)
           supplier_clean == simplify_supplier(inv_row.Supplier_Name)
           mrp_invoice_adj == adjust_mrp_for_vat(inv_row.MRP_Invoice, inv_row.VAT)
           effective_unit_price ==
               EffectiveUnitPrice(inv_row.Qty, inv_row.Bonus, inv_row.Unit_Price)
           forced == AliasRule(master, inv_name_clean, supplier_clean) # {}
           best == IF forced
                   THEN alias_override(master, inv_name_clean, supplier_clean,
                                       effective_unit_price, mrp_invoice_adj)
                   ELSE find_best_item(master, inv_name_clean, supplier_clean,
                                       effective_unit_price, mrp_invoice_adj)
       IN  IF inv_name_clean = <<>>
           THEN rows' = rows
           ELSE rows' = Append(rows,
                    OutputRow(inv_row, best, mrp_invoice_adj,
                        IF forced THEN <<"override">> ELSE <<"override", "ensemble">>,
                        IF forced THEN {"override"} ELSE {},
                        IF forced THEN "override" ELSE "ensemble"))
    /\ invoice_input' = Tail(invoice_input)
    /\ UNCHANGED <<learned_mappings, correction_history, last_call, pc, engine,
                   master, stats_counters, runs, calls>>

\* the script writes its output and exits; only the two tables outlive it
Finish ==
    /\ pc = "lines"
    /\ invoice_input = <<>>
    /\ pc' = "idle"
    /\ engine' = "none"
    /\ master' = <<>>
    /\ rows' = <<>>
    /\ stats_counters' = NoCounters
    /\ UNCHANGED <<learned_mappings, correction_history, last_call, invoice_input,
                   runs, calls>>

\* the arguments the API calls below are made with
ApiNames == {T_PANADOL}
ApiStoredSuppliers == {NULL, <<>>, clean(T_Acme), T_AL_MAQAM}
ApiLookupSuppliers == {NULL, <<>>, clean(T_Acme), T_AL_MAQAM}
ApiItems == {ItemP1, ItemZ9}
ApiConfidences == {500, 900, 1000}
ApiMinConfidences == {750, 950}

\* a call of add_learned_mapping
AddCall(invoice_pattern_clean, item, supplier_pattern, confidence) ==
    /\ pc = "idle"
    /\ calls < MaxCalls
    /\ learned_mappings' = add_learned_mapping(learned_mappings,
                               invoice_pattern_clean, item.code, item.name,
                               supplier_pattern, confidence)
    /\ last_call' = [op |-> "add",
                     invoice_pattern_clean |-> invoice_pattern_clean,
                     master_item_code |-> item.code,
                     supplier_pattern |-> supplier_pattern,
                     confidence |-> confidence]
    /\ calls' = calls + 1
    /\ UNCHANGED <<correction_history, pc, engine, master, invoice_input, rows,
                   stats_counters, runs>>

\* a call of lookup_learned_mapping; row is the row fetchone() produced
LookupCall(invoice_name_clean, supplier_clean, min_confidence) ==
    /\ pc = "idle"
    /\ calls < MaxCalls
    /\ \E row \in LookupRows(learned_mappings, invoice_name_clean, supplier_clean,
                             min_confidence) :
          last_call' = [op |-> "lookup",
                        invoice_name_clean |-> invoice_name_clean,
                        supplier_clean |-> supplier_clean,
                        min_confidence |-> min_confidence,
                        row |-> row,
                        result |-> lookup_learned_mapping(learned_mappings, row)]
    /\ calls' = calls + 1
    /\ UNCHANGED <<learned_mappings, correction_history, pc, engine, master,
                   invoice_input, rows, stats_counters, runs>>

\* the corrections files the ingestion runs below read, against the full catalog
IngestFiles ==
    { CorrectionsOf(<<K_Acme>>), CorrectionsOf(<<K_ToZ9>>),
      CorrectionsOf(<<K_NoOp, K_Unknown>>) }

\* a call of process_corrections_file
IngestCall(file) ==
    /\ pc = "idle"
    /\ calls < MaxIngest
    /\ LET st == process_corrections_file(learned_mappings, correction_history,
                                          file, <<ItemP1, ItemZ9>>)
       IN  /\ learned_mappings' = st.table
           /\ correction_history' = st.history
           /\ last_call' = [op |-> "ingest", file |-> file, count |-> st.count]
    /\ calls' = calls + 1
    /\ UNCHANGED <<pc, engine, master, invoice_input, rows, stats_counters, runs>>

Init ==
    /\ learned_mappings = <<>>
    /\ correction_history = <<>>
    /\ last_call = NoCall
    /\ pc = "idle"
    /\ engine = "none"
    /\ master = <<>>
    /\ invoice_input = <<>>
    /\ rows = <<>>
    /\ stats_counters = NoCounters
    /\ runs = 0
    /\ calls = 0

Next ==
    \/ \E m \in Masters, c \in CorrectionFiles, i \in InvoiceFiles : EliteStart(m, c, i)
    \/ EliteLine
    \/ \E m \in Masters, i \in InvoiceFiles : LegacyStart(m, i)
    \/ LegacyLine
    \/ Finish

Spec == Init /\ [][Next]_vars

\* the learning store driven through its API
NextStore ==
    \/ \E n \in ApiNames, item \in ApiItems, s \in ApiStoredSuppliers,
          c \in ApiConfidences : AddCall(n, item, s, c)
    \/ \E n \in ApiNames, s \in ApiLookupSuppliers, c \in ApiMinConfidences :
          LookupCall(n, s, c)

SpecStore == Init /\ [][NextStore]_vars

\* repeated ingestion of corrections files
NextIngest == \E file \in IngestFiles : IngestCall(file)

SpecIngest == Init /\ [][NextIngest]_vars

-----------------------------------------------------------------------------
(* process_corrections_file write by write: each commit is a step, and the   *)
(* process may die between any two of them                                   *)

\* bound of the model: the calls of process_corrections_file that are started
MaxStarted == 3

\* the batches ingested write by write
StepFiles ==
    { CorrectionsOf(<<K_Acme, K_ToZ9>>), CorrectionsOf(<<K_Acme>>),
      CorrectionsOf(<<K_Unknown, K_Two, K_NoOp>>) }

\* the call up to the start of its loop: the sheet read and filtered
IngestStart(file) ==
    /\ pc = "idle"
    /\ calls < MaxStarted
    /\ last_call' = [op |-> "ingesting", columns |-> file.columns,
                     todo |-> SelectSeq(file.rows, IsCorrection), count |-> 0]
    /\ pc' = "row"
    /\ calls' = calls + 1
    /\ UNCHANGED <<learned_mappings, correction_history, engine, master,
                   invoice_input, rows, stats_counters, runs>>

\* "if master_match.empty: ... continue"
IngestSkip ==
    /\ pc = "row"
    /\ last_call.todo # <<>>
    /\ MasterMatch(<<ItemP1, ItemZ9>>, Head(last_call.todo).Corrected_Item_Code) = {}
    /\ last_call' = [last_call EXCEPT !.todo = Tail(@)]
    /\ UNCHANGED <<learned_mappings, correction_history, pc, engine, master,
                   invoice_input, rows, stats_counters, runs, calls>>

\* self.record_correction(...): the INSERT into correction_history and its commit
IngestRecord ==
    /\ pc = "row"
    /\ last_call.todo # <<>>
    /\ LET row == Head(last_call.todo)
           m == <<ItemP1, ItemZ9>>
           master_match == MasterMatch(m, row.Corrected_Item_Code)
           supplier_name == IF "Supplier_Name" \in last_call.columns
                            THEN row.Supplier_Name ELSE <<>>
       IN  /\ master_match # {}
           /\ correction_history' =
                 record_correction(correction_history, row.Invoice_Item_Name,
                     supplier_name, row.Suggested_Item_Code,
                     row.Corrected_Item_Code, m[FirstOf(master_match)].name)
    /\ pc' = "upsert"
    /\ UNCHANGED <<learned_mappings, last_call, engine, master, invoice_input,
                   rows, stats_counters, runs, calls>>

\* self.add_learned_mapping(...): the upsert and its commit, then count += 1
IngestUpsert ==
    /\ pc = "upsert"
    /\ LET row == Head(last_call.todo)
           m == <<ItemP1, ItemZ9>>
           supplier_name == IF "Supplier_Name" \in last_call.columns
                            THEN row.Supplier_Name ELSE <<>>
       IN  learned_mappings' =
               add_learned_mapping(learned_mappings, clean(row.Invoice_Item_Name),
                   row.Corrected_Item_Code,
                   m[FirstOf(MasterMatch(m, row.Corrected_Item_Code))].name,
                   SupplierPattern(supplier_name), CORRECTION_CONFIDENCE)
    /\ last_call' = [last_call EXCEPT !.todo = Tail(@), !.count = @ + 1]
    /\ pc' = "row"
    /\ UNCHANGED <<correction_history, engine, master, invoice_input, rows,
                   stats_counters, runs, calls>>

\* "return count" after the last row
IngestReturn ==
    /\ pc = "row"
    /\ last_call.todo = <<>>
    /\ pc' = "idle"
    /\ UNCHANGED <<learned_mappings, correction_history, last_call, engine,
                   master, invoice_input, rows, stats_counters, runs, calls>>

\* the process dies inside the call: what was committed stays
Crash ==
    /\ pc \in {"row", "upsert"}
    /\ pc' = "idle"
    /\ last_call' = NoCall
    /\ UNCHANGED <<learned_mappings, correction_history, engine, master,
                   invoice_input, rows, stats_counters, runs, calls>>

NextWrites ==
    \/ \E file \in StepFiles : IngestStart(file)
    \/ IngestSkip
    \/ IngestRecord
    \/ IngestUpsert
    \/ IngestReturn
    \/ Crash

SpecWrites == Init /\ [][NextWrites]_vars

-----------------------------------------------------------------------------
(* Calls of the pure functions: the arguments are drawn at the start, one    *)
(* action per function applies it and records the value it returns           *)

\* the signal values the calls are made with
Grid == {Zero, R(1, 2), One}

\* the name_scores dicts compute_final_score is called with
NameScores ==
    [sequence_match : Grid, levenshtein : Grid, jaccard : Grid,
     phonetic : Grid, component_bonus : Grid]

\* the argument lists of compute_final_score
FinalScoreArgs ==
    [op : {"compute_final_score"}, done : {FALSE}, name_scores : NameScores,
     supplier_score : Grid, mrp_score : Grid, cost_score : Grid,
     has_mrp : BOOLEAN]

\* a call of compute_final_score
FinalScoreCall ==
    /\ last_call.op = "compute_final_score"
    /\ ~last_call.done
    /\ last_call' = [last_call EXCEPT !.done = TRUE]
                        @@ [result |-> compute_final_score(last_call.name_scores,
                                           last_call.supplier_score,
                                           last_call.mrp_score,
                                           last_call.cost_score,
                                           last_call.has_mrp)]
    /\ UNCHANGED <<learned_mappings, correction_history, pc, engine, master,
                   invoice_input, rows, stats_counters, runs, calls>>

\* the MRP_Invoice cells of the lines below: NoNum is a cell float() rejects
\* (the column absent, a text that is no number), NaNNum a blank cell
MrpCells == {NoNum, NaNNum, Zero, R(0 - 5, 1), R(60000, 1), R(63000, 1)}

\* the invoice lines and catalog rows one candidate evaluation is made with
CandidateArgs ==
    { [op |-> "match_candidate", done |-> FALSE,
       inv_row |-> [Line(n, s, mrp) EXCEPT !.VAT = vat], candidate |-> c] :
         n \in {T_Panadol, T_OzanexCream}, s \in {T_AlMaqam, T_Acme},
         mrp \in MrpCells, vat \in {Zero, R(5, 1)}, c \in {ItemP1, ItemZ9} }

\* the main loop's preparation of one line and match_item's evaluation of one
\* candidate for it
CandidateCall ==
    /\ last_call.op = "match_candidate"
    /\ ~last_call.done
    /\ LET inv_row == last_call.inv_row
           mrp_invoice_adj == adjust_mrp_for_vat(inv_row.MRP_Invoice, inv_row.VAT)
       IN  last_call' = [last_call EXCEPT !.done = TRUE]
               @@ [mrp_invoice_adj |-> mrp_invoice_adj,
                   result |-> MatchCandidate(inv_row.Invoice_Item_Name,
                                  simplify_supplier(inv_row.Supplier_Name),
                                  EffectiveUnitPrice(inv_row.Qty, inv_row.Bonus,
                                                     inv_row.Unit_Price),
                                  mrp_invoice_adj, last_call.candidate)]
    /\ UNCHANGED <<learned_mappings, correction_history, pc, engine, master,
                   invoice_input, rows, stats_counters, runs, calls>>

\* a second catalog row of the same name and prices as ItemP1
T_P2 == <<"P", "2">>
ItemP2 == [ItemP1 EXCEPT !.code = T_P2]

\* the catalogs and invoice lines match_item is called with
MatchItemArgs ==
    { [op |-> "match_item", done |-> FALSE, master |-> m,
       inv_row |-> Line(n, s, mrp)] :
         m \in {<<ItemP1, ItemZ9>>, <<ItemZ9, ItemP1, ItemP2>>, <<ItemP2>>},
         n \in {T_Panadol, T_OzanexCream, T_DoseOnly},
         s \in {T_AlMaqam, T_Acme},
         mrp \in {NoNum, R(60000, 1), R(63000, 1)} }

\* a call of match_item; candidate_indices is what find_candidates_tfidf returned
MatchItemCall ==
    /\ last_call.op = "match_item"
    /\ ~last_call.done
    /\ \E candidate_indices \in CandidateOrders(last_call.master,
                                    last_call.inv_row.Invoice_Item_Name) :
          LET inv_row == last_call.inv_row
          IN  last_call' = [last_call EXCEPT !.done = TRUE]
                  @@ [candidate_indices |-> candidate_indices,
                      result |-> match_item(last_call.master, candidate_indices,
                                     inv_row.Invoice_Item_Name,
                                     simplify_supplier(inv_row.Supplier_Name),
                                     EffectiveUnitPrice(inv_row.Qty, inv_row.Bonus,
                                                        inv_row.Unit_Price),
                                     adjust_mrp_for_vat(inv_row.MRP_Invoice,
                                                        inv_row.VAT))]
    /\ UNCHANGED <<learned_mappings, correction_history, pc, engine, master,
                   invoice_input, rows, stats_counters, runs, calls>>

\* the catalogs and invoice lines match_invoice.py matches with its override rules
AliasArgs ==
    { [op |-> "alias_override", done |-> FALSE, master |-> m,
       inv_row |-> Line(n, s, mrp)] :
         m \in {<<ItemP1, ItemZ9>>, <<ItemP1>>, <<ItemN4, ItemP1>>,
                <<ItemP1, ItemZ9, ItemN4, ItemG7>>},
         n \in {T_Ozanex, T_PregnacareOzanex, T_NasalCannulaAdult, T_Panadol,
                T_OzanexCream},
         s \in {T_AlMaqamLLC, T_Acme},
         mrp \in {NoNum, R(60000, 1)} }

\* steps 1 and 2 of the main loop of match_invoice.py for one line:
\* alias_override, then find_best_item when it returned None, then the flag
AliasCall ==
    /\ last_call.op = "alias_override"
    /\ ~last_call.done
    /\ LET inv_row == last_call.inv_row
           inv_name_clean == clean(inv_row.Invoice_Item_Name)
           supplier_clean == simplify_supplier(inv_row.Supplier_Name)
           effective_unit_price ==
               EffectiveUnitPrice(inv_row.Qty, inv_row.Bonus, inv_row.Unit_Price)
           mrp_invoice_adj == adjust_mrp_for_vat(inv_row.MRP_Invoice, inv_row.VAT)
           overridden ==
               AliasRule(last_call.master, inv_name_clean, supplier_clean) # {}
           best == IF overridden
                   THEN alias_override(last_call.master, inv_name_clean,
                            supplier_clean, effective_unit_price, mrp_invoice_adj)
                   ELSE find_best_item(last_call.master, inv_name_clean,
                            supplier_clean, effective_unit_price, mrp_invoice_adj)
       IN  last_call' = [last_call EXCEPT !.done = TRUE]
               @@ [overridden |-> overridden, result |-> best,
                   flag |-> Flag(best.final_score)]
    /\ UNCHANGED <<learned_mappings, correction_history, pc, engine, master,
                   invoice_input, rows, stats_counters, runs, calls>>

\* lines of match_invoice_elite.py's loop over a one-item catalog and a given
\* learning store: the abbreviated name at several prices, taxes and suppliers
EliteLineArgs ==
    { [op |-> "elite_line", done |-> FALSE, master |-> <<ItemParacetamol>>,
       store |-> <<>>,
       inv_row |-> [Line(T_Paracet500MgTablets20s, s, mrp) EXCEPT
                       !.Unit_Price = up, !.VAT = vat]] :
         s \in {T_AlMaqamLLC, T_Acme},
         mrp \in {R(21, 10), R(2, 1), NoNum},
         up \in {R(105, 100), R(1, 1), R(2, 1)},
         vat \in {Zero, R(5, 1)} }

\* one iteration of the main loop of match_invoice_elite.py as a function of
\* the line, the catalog and the learning store
EliteLineCall ==
    /\ last_call.op = "elite_line"
    /\ ~last_call.done
    /\ LET inv_row == last_call.inv_row
           m == last_call.master
           inv_name_clean == clean(inv_row.Invoice_Item_Name)
           supplier_clean == simplify_supplier(inv_row.Supplier_Name)
           mrp_invoice_adj == adjust_mrp_for_vat(inv_row.MRP_Invoice, inv_row.VAT)
           effective_unit_price ==
               EffectiveUnitPrice(inv_row.Qty, inv_row.Bonus, inv_row.Unit_Price)
       IN  \E lrow \in LookupRows(last_call.store, inv_name_clean,
                                  supplier_clean, LEARNING_CONFIDENCE_THRESHOLD),
              candidate_indices \in CandidateOrders(m, inv_row.Invoice_Item_Name) :
             LET learned == lookup_learned_mapping(last_call.store, lrow)
                 usable == LearnedUsable(m, learned)
                 best ==
                     IF usable
                     THEN LearnedBest(learned,
                              m[FirstOf(MasterMatch(m, learned.item_code))],
                              supplier_clean, effective_unit_price,
                              mrp_invoice_adj)
                     ELSE match_item(m, candidate_indices,
                              inv_row.Invoice_Item_Name, supplier_clean,
                              effective_unit_price, mrp_invoice_adj)
             IN  last_call' = [last_call EXCEPT !.done = TRUE]
                     @@ [mrp_invoice_adj |-> mrp_invoice_adj,
                         result |-> best,
                         row |-> EliteRow(inv_row, best, mrp_invoice_adj,
                                     learned.learned,
                                     IF usable THEN <<"learned">>
                                     ELSE <<"learned", "ensemble">>,
                                     IF learned.learned THEN {"learned"} ELSE {},
                                     IF usable THEN "learned" ELSE "ensemble")]
    /\ UNCHANGED <<learned_mappings, correction_history, pc, engine, master,
                   invoice_input, rows, stats_counters, runs, calls>>

\* the two tables process_corrections_file is called on: empty, or as an
\* earlier ingestion left them
StoresBefore ==
    { [table |-> <<>>, history |-> <<>>] } \cup
    { LET st == process_corrections_file(<<>>, <<>>, CorrectionsOf(rws),
                                         <<ItemP1, ItemZ9>>)
      IN  [table |-> st.table, history |-> st.history] :
        rws \in {<<K_Acme>>, <<K_ToZ9, K_Two>>} }

\* the batches of corrections it is called with
Batches ==
    { <<K_Acme, K_Unknown, K_ToZ9>>, <<K_Acme, K_ToZ9>>, <<K_Unknown, K_Acme>>,
      <<K_Two, K_Unknown>>, <<K_Unknown>>, <<K_NoOp, K_Unknown>>, <<K_NoOp>>,
      <<K_Missing>>, <<K_NoOp, K_Missing, K_NoOp>>, <<K_NoOp, K_Acme>>, <<>> }

ProcessArgs ==
    { [op |-> "process_corrections_file", done |-> FALSE, store |-> st,
       file |-> CorrectionsOf(rws), master |-> m] :
         st \in StoresBefore, rws \in Batches,
         m \in {<<ItemP1, ItemZ9>>, <<ItemP1>>} }

\* a call of process_corrections_file: the tables it leaves, the count it returns
ProcessCall ==
    /\ last_call.op = "process_corrections_file"
    /\ ~last_call.done
    /\ LET st == process_corrections_file(last_call.store.table,
                     last_call.store.history, last_call.file, last_call.master)
       IN  last_call' = [last_call EXCEPT !.done = TRUE]
               @@ [result |-> [table |-> st.table, history |-> st.history,
                               count |-> st.count]]
    /\ UNCHANGED <<learned_mappings, correction_history, pc, engine, master,
                   invoice_input, rows, stats_counters, runs, calls>>

\* the VAT_Amount_or_% and MRP_Invoice cells adjust_mrp_for_vat is called with:
\* rejected by float(), blank, and numbers on both sides of 0 and of 1
VatCells ==
    {NoNum, NaNNum, Zero, R(0 - 5, 1), R(5, 100), R(1, 2), One, R(101, 100),
     R(5, 1), R(100, 1)}
QuotedCells ==
    {NoNum, NaNNum, Zero, R(0 - 105, 1), R(105, 1), R(21, 10), R(1, 100)}

AdjustArgs ==
    { [op |-> "adjust_mrp_for_vat", done |-> FALSE, mrp_invoice |-> mrp,
       vat_raw |-> vat] : mrp \in QuotedCells, vat \in VatCells }

\* a call of adjust_mrp_for_vat, and of normalize_vat_rate on the same cell
AdjustCall ==
    /\ last_call.op = "adjust_mrp_for_vat"
    /\ ~last_call.done
    /\ last_call' = [last_call EXCEPT !.done = TRUE]
           @@ [vat_rate |-> normalize_vat_rate(last_call.vat_raw),
               result |-> adjust_mrp_for_vat(last_call.mrp_invoice,
                                             last_call.vat_raw)]
    /\ UNCHANGED <<learned_mappings, correction_history, pc, engine, master,
                   invoice_input, rows, stats_counters, runs, calls>>

\* the candidates and Supplier_Name cells _compute_supplier_score is called for
SupplierArgs ==
    { [op |-> "compute_supplier_score", done |-> FALSE, candidate |-> c,
       supplier |-> sup] :
         c \in {ItemP1, ItemZ9, ItemN4, ItemG7, ItemParacetamol},
         sup \in {T_AlMaqamLLC, T_AlMaqam, T_Acme, NaN} }

\* a call of _compute_supplier_score as match_item makes it
SupplierCall ==
    /\ last_call.op = "compute_supplier_score"
    /\ ~last_call.done
    /\ last_call' = [last_call EXCEPT !.done = TRUE]
           @@ [result |-> compute_supplier_score(clean(last_call.candidate.name),
                              simplify_supplier(last_call.supplier))]
    /\ UNCHANGED <<learned_mappings, correction_history, pc, engine, master,
                   invoice_input, rows, stats_counters, runs, calls>>

\* cells of PurchaseReport.xlsx that are not text: a date, a bill number
DateValue == <<"<datetime>">>
BillValue == <<"<number>">>

\* date_val.strip()
RECURSIVE StripLeft(_)
StripLeft(s) ==
    IF s # <<>> /\ Head(s) \in Whitespace THEN StripLeft(Tail(s)) ELSE s
RECURSIVE StripRight(_)
StripRight(s) ==
    IF s # <<>> /\ s[Len(s)] \in Whitespace
    THEN StripRight(SubSeq(s, 1, Len(s) - 1))
    ELSE s
Strip(s) == StripRight(StripLeft(s))

\* a faulty header test: the bill number is not looked at
IsHeaderWithoutBillTest(row) ==
    /\ IsNa(row.Particulars)
    /\ row.Date # NaN /\ row.Date # DateValue

\* pd.isna(particulars) and isinstance(date_val, str) and pd.isna(bill_no)
IsHeader(row) ==
    /\ IsNa(row.Particulars)
    /\ row.Date # NaN /\ row.Date # DateValue
    /\ IsNa(row.Bill)

\* the loop over purch.iterrows(): every row with the supplier it is given
RECURSIVE HeaderScan(_, _)
HeaderScan(todo, current_supplier) ==
    IF todo = <<>> THEN <<>>
    ELSE LET row == Head(todo)
             current == IF IsHeader(row) THEN Strip(row.Date)
                        ELSE current_supplier
         IN  <<row @@ [Supplier |-> current]>> \o HeaderScan(Tail(todo), current)

\* purch.dropna(subset=["Particulars"])
DropHeaderRows(scanned) == SelectSeq(scanned, LAMBDA row : ~IsNa(row.Particulars))

\* rows of PurchaseReport.xlsx: supplier headers, item rows, a totals row, a
\* text row with a bill number, an item row whose date is text
T_AcmePadded == <<" ", "A", "c", "m", "e", " ">>
RawRow(date, particulars, bill) ==
    [Date |-> date, Particulars |-> particulars, Bill |-> bill]
RawRows ==
    { RawRow(T_AcmePadded, NaN, NaN), RawRow(T_AlMaqamLLC, NaN, NaN),
      RawRow(DateValue, T_PANADOL, BillValue),
      RawRow(DateValue, T_OZANEX_CREAM, BillValue),
      RawRow(NaN, NaN, NaN), RawRow(DateValue, NaN, NaN),
      RawRow(T_Acme, NaN, BillValue), RawRow(T_Acme, T_PANADOL, NaN) }

\* bound of the model: the longest purchase report scanned
MaxReportRows == 3

ScanArgs ==
    { [op |-> "header_scan", done |-> FALSE, purch_raw |-> f] :
        f \in UNION { [1..n -> RawRows] : n \in 0..MaxReportRows } }

\* the header scan and the dropna that follows it
ScanCall ==
    /\ last_call.op = "header_scan"
    /\ ~last_call.done
    /\ LET scanned == HeaderScan(last_call.purch_raw, NULL)
       IN  last_call' = [last_call EXCEPT !.done = TRUE]
               @@ [scanned |-> scanned, purch |-> DropHeaderRows(scanned)]
    /\ UNCHANGED <<learned_mappings, correction_history, pc, engine, master,
                   invoice_input, rows, stats_counters, runs, calls>>

\* normalize_form of PharmaceuticalParser, for a form that is not empty
normalize_form(form) ==
    IF form \in {"TABLETS", "TABLET", "TABS"} THEN "TAB"
    ELSE IF form \in {"CAPSULES", "CAPSULE", "CAPS"} THEN "CAP"
    ELSE IF form = "SUSPENSION" THEN "SUSP"
    ELSE IF form = "INJECTION" THEN "INJ"
    ELSE IF form = "SOLUTION" THEN "SOL"
    ELSE IF form = "AMPOULE" THEN "AMP"
    ELSE IF form = "SUPPOSITORY" THEN "SUPP"
    ELSE IF form = "SACHETS" THEN "SACHET"
    ELSE form

\* sum(1 for d in inv_dosages if d in cand_dosages)
DosageMatches(inv_dosages, cand_dosages) ==
    Cardinality({ i \in DOMAIN inv_dosages :
                    \E j \in DOMAIN cand_dosages : cand_dosages[j] = inv_dosages[i] })

\* a faulty bonus: 0.3 for every matching dosage, and no cap
ComponentBonusPerDosage(inv_dosages, cand_dosages, inv_form, cand_form) ==
    RAdd(R(3 * DosageMatches(inv_dosages, cand_dosages), 10),
         IF inv_form # "" /\ cand_form # ""
            /\ normalize_form(inv_form) = normalize_form(cand_form)
         THEN R(1, 10) ELSE Zero)

\* scores['component_bonus'] of _compute_similarity_scores; "" is no form
component_bonus(inv_dosages, cand_dosages, inv_form, cand_form) ==
    LET dosage_matches == DosageMatches(inv_dosages, cand_dosages)
        dosage_part ==
            IF inv_dosages # <<>> /\ cand_dosages # <<>> /\ dosage_matches > 0
            THEN R(3 * dosage_matches,
                   10 * Max(Len(inv_dosages), Len(cand_dosages)))
            ELSE Zero
        form_part ==
            IF inv_form # "" /\ cand_form # ""
               /\ normalize_form(inv_form) = normalize_form(cand_form)
            THEN R(1, 10) ELSE Zero
    IN  RMin(RAdd(dosage_part, form_part), R(2, 5))

\* the values of the four text similarities and of the business signals the
\* evaluations below are made with
Ends == {Zero, One}

\* the argument lists of one candidate's evaluation from its similarities,
\* parsed dosages and forms
SimilarityArgs ==
    [op : {"similarity"}, done : {FALSE},
     sequence_match : Ends, levenshtein : Ends, jaccard : Ends, phonetic : Ends,
     inv_dosages : {<<"500MG">>, <<"500MG", "5ML">>},
     cand_dosages : {<<>>, <<"500MG">>, <<"5ML", "500MG">>},
     inv_form : {"", "TABLET"}, cand_form : {"TAB", "CREAM"},
     supplier_score : Ends, mrp_score : Ends, cost_score : Ends,
     has_mrp : BOOLEAN]

\* one pass of match_item's loop body: the name scores of the candidate and
\* the final score fused from them
SimilarityCall ==
    /\ last_call.op = "similarity"
    /\ ~last_call.done
    /\ LET name_scores ==
               [sequence_match |-> last_call.sequence_match,
                levenshtein |-> last_call.levenshtein,
                jaccard |-> last_call.jaccard,
                phonetic |-> last_call.phonetic,
                component_bonus |->
                    component_bonus(last_call.inv_dosages, last_call.cand_dosages,
                                    last_call.inv_form, last_call.cand_form)]
       IN  last_call' = [last_call EXCEPT !.done = TRUE]
                @@ [name_scores |-> name_scores,
                    result |-> compute_final_score(name_scores,
                                   last_call.supplier_score, last_call.mrp_score,
                                   last_call.cost_score, last_call.has_mrp)]
    /\ UNCHANGED <<learned_mappings, correction_history, pc, engine, master,
                   invoice_input, rows, stats_counters, runs, calls>>

\* the argument lists drawn at the start
CalcArgs ==
    FinalScoreArgs \cup CandidateArgs \cup MatchItemArgs \cup AliasArgs
        \cup EliteLineArgs \cup ProcessArgs \cup AdjustArgs \cup SupplierArgs
        \cup ScanArgs \cup SimilarityArgs

InitCalc ==
    /\ learned_mappings = <<>>
    /\ correction_history = <<>>
    /\ last_call \in CalcArgs
    /\ pc = "idle"
    /\ engine = "none"
    /\ master = <<>>
    /\ invoice_input = <<>>
    /\ rows = <<>>
    /\ stats_counters = NoCounters
    /\ runs = 0
    /\ calls = 0

NextCalc ==
    \/ FinalScoreCall
    \/ CandidateCall
    \/ MatchItemCall
    \/ AliasCall
    \/ EliteLineCall
    \/ ProcessCall
    \/ AdjustCall
    \/ SupplierCall
    \/ ScanCall
    \/ SimilarityCall

SpecCalc == InitCalc /\ [][NextCalc]_vars

-----------------------------------------------------------------------------
(* The claims of the specification, C1 to C30 *)

\* the stored mappings of a normalized name
MappingsFor(name_clean) ==
    { i \in DOMAIN learned_mappings :
        learned_mappings[i].invoice_pattern_clean = name_clean }

\* the elements of a sequence
Range(seq) == { seq[k] : k \in DOMAIN seq }

\* C1: in a run of match_invoice_elite.py, an output line whose item name and
\* supplier name are those of an ingested correction, the corrected code being
\* in the catalog and the store holding one mapping for the name, is resolved
\* from the learning store to the corrected code, whatever the supplier name:
\* empty, one word, two words or more.
C1_IngestedCorrectionResolves ==
    engine = "elite" =>
        \A i \in DOMAIN rows, h \in DOMAIN correction_history :
            LET r == rows[i]
                c == correction_history[h]
            IN  ( /\ c.invoice_item_name = r.Invoice_Item_Name
                  /\ c.supplier_name = r.Supplier_Name
                  /\ MasterMatch(master, c.corrected_item_code) # {}
                  /\ Cardinality(MappingsFor(clean(r.Invoice_Item_Name))) = 1 )
                => /\ r.Learned_Match = "YES"
                   /\ r.Suggested_Item_Code = c.corrected_item_code

\* the order of the stages C2 states
StageOrder == <<"override", "learned", "ensemble">>

\* C2: every output line went through the stages override, learned mapping,
\* ensemble in that order up to the first one that yielded a result, that
\* stage decided the line, and no later stage was run.
C2_ThreeStagesInOrder ==
    \A i \in DOMAIN rows :
        LET r == rows[i]
        IN  \E k \in 1..3 :
                /\ r.stages = SubSeq(StageOrder, 1, k)
                /\ r.decided_by = StageOrder[k]
                /\ \A j \in 1..(k - 1) : StageOrder[j] \notin r.found
                /\ k < 3 => StageOrder[k] \in r.found

\* C3: no step lowers the confidence of a stored mapping.
C3_ConfidenceNeverDecreases ==
    [][\A i \in DOMAIN learned_mappings :
          learned_mappings'[i].confidence >= learned_mappings[i].confidence]_vars

\* C4: every stored mapping has confidence at most 0.98.
C4_ConfidenceCapped ==
    \A i \in DOMAIN learned_mappings : learned_mappings[i].confidence <= 980

\* C5: a call of add_learned_mapping on an existing (name, supplier, code)
\* adds 1 to both counters of that mapping and sets its confidence to
\* min(0.98, stored confidence + 0.01 * new times_confirmed); on a new key it
\* appends a mapping with the given confidence and both counters 1; every
\* other mapping is left as it was.
C5_UpsertFromStoredConfidence ==
    [][(last_call'.op = "add" /\ calls' = calls + 1) =>
        LET a == last_call'
            old == learned_mappings
            new == learned_mappings'
            ids == { i \in DOMAIN old :
                       /\ old[i].invoice_pattern_clean = a.invoice_pattern_clean
                       /\ old[i].supplier_pattern = a.supplier_pattern
                       /\ old[i].master_item_code = a.master_item_code }
        IN  IF ids # {}
            THEN /\ DOMAIN new = DOMAIN old
                 /\ \A i \in DOMAIN old \ ids : new[i] = old[i]
                 /\ \A i \in ids :
                       /\ new[i].times_seen = old[i].times_seen + 1
                       /\ new[i].times_confirmed = old[i].times_confirmed + 1
                       /\ new[i].confidence =
                              Min(980, old[i].confidence
                                          + 10 * new[i].times_confirmed)
            ELSE /\ Len(new) = Len(old) + 1
                 /\ SubSeq(new, 1, Len(old)) = old
                 /\ new[Len(new)].invoice_pattern_clean = a.invoice_pattern_clean
                 /\ new[Len(new)].supplier_pattern = a.supplier_pattern
                 /\ new[Len(new)].master_item_code = a.master_item_code
                 /\ new[Len(new)].confidence = a.confidence
                 /\ new[Len(new)].times_seen = 1
                 /\ new[Len(new)].times_confirmed = 1]_vars

\* the stored mappings with the key of mapping i
SameKey(i) ==
    { j \in DOMAIN learned_mappings :
        /\ learned_mappings[j].invoice_pattern_clean
               = learned_mappings[i].invoice_pattern_clean
        /\ learned_mappings[j].supplier_pattern = learned_mappings[i].supplier_pattern
        /\ learned_mappings[j].master_item_code = learned_mappings[i].master_item_code }

\* the recorded ingestions of the correction mapping i was learned from
Ingestions(i) ==
    { h \in DOMAIN correction_history :
        /\ clean(correction_history[h].invoice_item_name)
               = learned_mappings[i].invoice_pattern_clean
        /\ SupplierPattern(correction_history[h].supplier_name)
               = learned_mappings[i].supplier_pattern
        /\ correction_history[h].corrected_item_code
               = learned_mappings[i].master_item_code }

\* what C6 and its amended form share: one mapping per ingested correction, its
\* times_confirmed the number of ingestions, created at 0.90 by the first one
C6_OneMappingCounted ==
    /\ \A i \in DOMAIN learned_mappings :
          /\ SameKey(i) = {i}
          /\ learned_mappings[i].times_confirmed = Cardinality(Ingestions(i))
          /\ learned_mappings[i].times_confirmed = 1
                 => learned_mappings[i].confidence = 900
    /\ \A h \in DOMAIN correction_history :
          \E i \in DOMAIN learned_mappings : h \in Ingestions(i)

\* C6 (as stated): ingesting the same correction repeatedly leaves one mapping
\* whose times_confirmed is the number of ingestions, created at 0.90, and the
\* second and every later ingestion strictly increases its confidence.
C6_EveryLaterIngestionIncreases ==
    /\ []C6_OneMappingCounted
    /\ [][\A i \in DOMAIN learned_mappings :
             learned_mappings'[i].times_confirmed
                 = learned_mappings[i].times_confirmed + 1
             => learned_mappings'[i].confidence > learned_mappings[i].confidence]_vars

\* C6 (amended): ingesting the same correction repeatedly leaves one mapping
\* whose times_confirmed is the number of ingestions, created at 0.90; the
\* second and every later ingestion strictly increases its confidence while it
\* is below 0.98 and leaves it at 0.98 once it is there.
C6_LaterIngestionIncreasesUpToCap ==
    /\ []C6_OneMappingCounted
    /\ [][\A i \in DOMAIN learned_mappings :
             learned_mappings'[i].times_confirmed
                 = learned_mappings[i].times_confirmed + 1
             => IF learned_mappings[i].confidence < 980
                THEN /\ learned_mappings'[i].confidence
                            > learned_mappings[i].confidence
                     /\ learned_mappings'[i].confidence <= 980
                ELSE learned_mappings'[i].confidence = 980]_vars

\* C6 witness: a correction ingested nine times, its mapping at 0.98
C6_NinthIngestionAtCap ==
    \E i \in DOMAIN learned_mappings :
        /\ Cardinality(Ingestions(i)) = 9
        /\ learned_mappings[i].times_confirmed = 9
        /\ learned_mappings[i].confidence = 980

\* the parts of the store a recorded lookup chose from
Qualifying ==
    { i \in DOMAIN learned_mappings :
        /\ learned_mappings[i].invoice_pattern_clean = last_call.invoice_name_clean
        /\ learned_mappings[i].confidence >= last_call.min_confidence }
ExactSupplier ==
    { i \in Qualifying : learned_mappings[i].supplier_pattern = last_call.supplier_clean }
SupplierAgnostic ==
    { i \in Qualifying : learned_mappings[i].supplier_pattern = NULL }
SupplierGiven == last_call.supplier_clean # NULL /\ last_call.supplier_clean # <<>>

\* the lookup returned row `row` of the group, none of the group more confident
ReturnedBestOf(group) ==
    /\ last_call.row \in group
    /\ \A j \in group :
          learned_mappings[last_call.row].confidence >= learned_mappings[j].confidence
    /\ last_call.result.learned
    /\ last_call.result.item_code = learned_mappings[last_call.row].master_item_code
    /\ last_call.result.confidence = learned_mappings[last_call.row].confidence

ReturnedNone == last_call.row = 0 /\ last_call.result = None

QualifyingFor(r) ==
    LookupRows(learned_mappings, clean(r.Invoice_Item_Name),
               simplify_supplier(r.Supplier_Name), 850) \ {0}

\* C8: in a run of match_invoice_elite.py, every output line whose lookup
\* returns a mapping of confidence >= 0.85 carries that mapping's code, has
\* its confidence as final score, and was not given to the ensemble.
C8_QualifyingMappingDecides ==
    engine = "elite" =>
        \A i \in DOMAIN rows :
            LET r == rows[i]
            IN  QualifyingFor(r) # {} =>
                    /\ \E m \in QualifyingFor(r) :
                          /\ r.Suggested_Item_Code = learned_mappings[m].master_item_code
                          /\ r.fs = R(learned_mappings[m].confidence, 1000)
                    /\ "ensemble" \notin Range(r.stages)

\* C9: in a run of match_invoice_elite.py, Learned_Match is YES exactly on
\* the output lines decided by the learning store, and the learned counter is
\* the number of those lines.
C9_LearnedIndicatorExact ==
    engine = "elite" =>
        /\ \A i \in DOMAIN rows :
              rows[i].Learned_Match = "YES" <=> rows[i].decided_by = "learned"
        /\ stats_counters.learned
               = Cardinality({ i \in DOMAIN rows : rows[i].decided_by = "learned" })

\* C10: the tier of every output line is AUTO_OK when its unrounded final
\* score is >= 0.80, CHECK when it is >= 0.60 and < 0.80, NO_MATCH below
\* 0.60; lines of equal score have equal tiers whatever their MRP status.
C10_TierFromUnroundedScore ==
    /\ \A i \in DOMAIN rows :
          LET r == rows[i]
          IN  /\ r.fs.d > 0
              /\ r.Flag_AUTO_OK_or_CHECK =
                     IF 5 * r.fs.n >= 4 * r.fs.d THEN "AUTO_OK"
                     ELSE IF 5 * r.fs.n >= 3 * r.fs.d THEN "CHECK"
                     ELSE "NO_MATCH"
    /\ \A i, j \in DOMAIN rows :
          rows[i].fs = rows[j].fs
              => rows[i].Flag_AUTO_OK_or_CHECK = rows[j].Flag_AUTO_OK_or_CHECK

\* C10 witness: one run with lines at 0.80, 0.799999, 0.60 and 0.599999, the
\* first one overcharged and still AUTO_OK
C10_BoundaryLines ==
    /\ Len(rows) = 4
    /\ rows[1].fs = R(80, 100) /\ rows[1].Flag_AUTO_OK_or_CHECK = "AUTO_OK"
    /\ rows[1].MRP_Status = "OVERCHARGED"
    /\ rows[2].fs = R(799999, 1000000) /\ rows[2].Flag_AUTO_OK_or_CHECK = "CHECK"
    /\ rows[3].fs = R(60, 100) /\ rows[3].Flag_AUTO_OK_or_CHECK = "CHECK"
    /\ rows[4].fs = R(599999, 1000000) /\ rows[4].Flag_AUTO_OK_or_CHECK = "NO_MATCH"

\* the recorded call is a finished call of function `op`
Returned(op) == last_call.op = op /\ last_call.done

\* w hundredths of x
Pct(w, x) == RMul(R(w, 100), x)

\* C11: compute_final_score returns 0.45 name + 0.25 supplier + 0.20 list
\* price + 0.10 cost with a list price and 0.55 name + 0.30 supplier + 0.15
\* cost without one, name being 0.25 sequence + 0.20 levenshtein + 0.20
\* jaccard + 0.15 phonetic + 0.20 component bonus; all signals at 1 give 1 in
\* both regimes; without a list price the value is the same for every
\* list-price score.
C11_FusionWeights ==
    Returned("compute_final_score") =>
        LET a == last_call
            ns == a.name_scores
            name == RAdd(Pct(25, ns.sequence_match),
                    RAdd(Pct(20, ns.levenshtein),
                    RAdd(Pct(20, ns.jaccard),
                    RAdd(Pct(15, ns.phonetic), Pct(20, ns.component_bonus)))))
            ones == [sequence_match |-> One, levenshtein |-> One, jaccard |-> One,
                     phonetic |-> One, component_bonus |-> One]
        IN  /\ a.has_mrp =>
                  a.result = RAdd(Pct(45, name),
                             RAdd(Pct(25, a.supplier_score),
                             RAdd(Pct(20, a.mrp_score), Pct(10, a.cost_score))))
            /\ ~a.has_mrp =>
                  /\ a.result = RAdd(Pct(55, name),
                                RAdd(Pct(30, a.supplier_score),
                                     Pct(15, a.cost_score)))
                  /\ \A other \in Grid :
                        compute_final_score(ns, a.supplier_score, other,
                                            a.cost_score, FALSE) = a.result
            /\ (ns = ones /\ a.supplier_score = One /\ a.mrp_score = One
                   /\ a.cost_score = One) => a.result = One

\* C11 witness: a call without a list price, its list-price score at 0, that
\* returned the full score 1 from the other signals alone
C11_NoListPriceFullScore ==
    /\ Returned("compute_final_score")
    /\ ~last_call.has_mrp
    /\ last_call.mrp_score = Zero
    /\ last_call.result = One

\* the ensemble name score of a name_scores dict, with the weights C11 states
NameOf(ns) ==
    RAdd(Pct(25, ns.sequence_match),
    RAdd(Pct(20, ns.levenshtein),
    RAdd(Pct(20, ns.jaccard),
    RAdd(Pct(15, ns.phonetic), Pct(20, ns.component_bonus)))))

\* a quoted list price that is unusable: absent, blank, no number, zero or negative
UnusableListPrice(cell) ==
    cell = NoNum \/ cell = NaNNum \/ RLe(cell, Zero)

\* C12: for a line whose quoted list price is unusable, a candidate gets no
\* list-price score and its final score is 0.55 name + 0.30 supplier + 0.15
\* cost; the with-list-price weights are used only for a line with a usable
\* positive list price and a candidate with a catalog retail price.
C12_RegimeByListPrice ==
    Returned("match_candidate") =>
        LET a == last_call
            r == a.result
            name == NameOf(compute_similarity_scores(a.inv_row.Invoice_Item_Name,
                                                     a.candidate.name))
            without == RAdd(Pct(55, name),
                       RAdd(Pct(30, r.supplier_score), Pct(15, r.cost_score)))
            with == RAdd(Pct(45, name),
                    RAdd(Pct(25, r.supplier_score),
                    RAdd(Pct(20, r.mrp_score), Pct(10, r.cost_score))))
        IN  /\ r.final_score = IF r.has_mrp THEN with ELSE without
            /\ UnusableListPrice(a.inv_row.MRP_Invoice) =>
                  /\ ~r.has_mrp
                  /\ r.mrp_score = Zero
                  /\ r.final_score = without
            /\ r.has_mrp =>
                  /\ ~UnusableListPrice(a.inv_row.MRP_Invoice)
                  /\ IsNum(a.candidate.mrp_master)

\* the evaluation of the k-th retrieved candidate of the recorded match_item call
EvaluatedAt(k) ==
    LET inv_row == last_call.inv_row
    IN  MatchEvaluation(inv_row.Invoice_Item_Name,
                        simplify_supplier(inv_row.Supplier_Name),
                        EffectiveUnitPrice(inv_row.Qty, inv_row.Bonus,
                                           inv_row.Unit_Price),
                        adjust_mrp_for_vat(inv_row.MRP_Invoice, inv_row.VAT),
                        last_call.master[last_call.candidate_indices[k]])

\* x < y and x <= y on final scores, as cross products
ScoreBelow(x, y) == x.n * y.d < y.n * x.d
ScoreAtMost(x, y) == x.n * y.d <= y.n * x.d

\* C13: match_item returns the evaluation of the retrieved candidate whose
\* final score is greatest, the first one in retrieval order among those that
\* share it; with at least one candidate retrieved the result names a catalog
\* item.
C13_FirstGreatestCandidate ==
    (Returned("match_item") /\ last_call.candidate_indices # <<>>) =>
        /\ last_call.result.item_code # NULL
        /\ \E k \in DOMAIN last_call.candidate_indices :
              /\ last_call.result = EvaluatedAt(k)
              /\ \A j \in DOMAIN last_call.candidate_indices :
                    /\ ScoreAtMost(EvaluatedAt(j).final_score,
                                   EvaluatedAt(k).final_score)
                    /\ j < k => ScoreBelow(EvaluatedAt(j).final_score,
                                           EvaluatedAt(k).final_score)

\* C13 witness: three candidates retrieved, the last two sharing the greatest
\* final score, the earlier of the two returned
C13_TieKeepsFirst ==
    /\ Returned("match_item")
    /\ Len(last_call.candidate_indices) = 3
    /\ EvaluatedAt(2).final_score = EvaluatedAt(3).final_score
    /\ ScoreBelow(EvaluatedAt(1).final_score, EvaluatedAt(2).final_score)
    /\ EvaluatedAt(2).item_code # EvaluatedAt(3).item_code
    /\ last_call.result.item_code = EvaluatedAt(2).item_code

\* the three override rules in the order alias_override tries them: the words
\* the invoice name must contain, the supplier prefix, the catalog substrings
OverrideRules ==
    << [words |-> {T_NASAL, T_CANNULA, T_ADULT}, supplier |-> T_AL_MAQAM,
        substrings |-> {T_NASAL, T_OXYGEN, T_CANNULA, T_ADULT}],
       [words |-> {T_PREGNACARE}, supplier |-> <<>>,
        substrings |-> {T_PREGNACARE, T_ORIGINAL, T_30}],
       [words |-> {T_OZANEX}, supplier |-> <<>>,
        substrings |-> {T_OZANEX}] >>

\* the predicate of rule k holds for the recorded line
RuleHolds(k) ==
    /\ \A w \in OverrideRules[k].words :
          Contains(clean(last_call.inv_row.Invoice_Item_Name), w)
    /\ StartsWith(simplify_supplier(last_call.inv_row.Supplier_Name),
                  OverrideRules[k].supplier)

\* the catalog rows rule k's substring search finds
RuleFinds(k) ==
    { i \in DOMAIN last_call.master :
        \A sub \in OverrideRules[k].substrings :
            Contains(clean(last_call.master[i].name), sub) }

\* rule k is the first whose predicate holds and whose search finds a row
RuleFires(k) ==
    /\ RuleHolds(k)
    /\ RuleFinds(k) # {}
    /\ \A j \in 1..(k - 1) : ~(RuleHolds(j) /\ RuleFinds(j) # {})

\* the scores of catalog row i for the recorded line
ForcedScores(i) ==
    LET inv_row == last_call.inv_row
    IN  compute_scores_for_candidate(clean(inv_row.Invoice_Item_Name),
            simplify_supplier(inv_row.Supplier_Name),
            EffectiveUnitPrice(inv_row.Qty, inv_row.Bonus, inv_row.Unit_Price),
            adjust_mrp_for_vat(inv_row.MRP_Invoice, inv_row.VAT),
            last_call.master[i])

\* C14: when an override rule fires and its catalog entry is found, the result
\* is that entry with its signals computed as for any candidate and the final
\* score max(fused score, 0.85), so at least 0.85 and AUTO_OK; a rule whose
\* predicate holds but whose search finds nothing passes to the next rule, and
\* when no rule fires the result is that of normal matching.
C14_OverrideForcesEntry ==
    Returned("alias_override") =>
        /\ \A k \in DOMAIN OverrideRules :
              RuleFires(k) =>
                  LET scores == ForcedScores(FirstOf(RuleFinds(k)))
                  IN  /\ last_call.overridden
                      /\ last_call.result =
                            [scores EXCEPT !.final_score =
                                RMax(scores.final_score, R(85, 100))]
                      /\ RLe(R(85, 100), last_call.result.final_score)
                      /\ last_call.flag = "AUTO_OK"
        /\ (\A k \in DOMAIN OverrideRules : ~RuleFires(k)) =>
              LET inv_row == last_call.inv_row
              IN  /\ ~last_call.overridden
                  /\ last_call.result =
                        find_best_item(last_call.master,
                            clean(inv_row.Invoice_Item_Name),
                            simplify_supplier(inv_row.Supplier_Name),
                            EffectiveUnitPrice(inv_row.Qty, inv_row.Bonus,
                                               inv_row.Unit_Price),
                            adjust_mrp_for_vat(inv_row.MRP_Invoice, inv_row.VAT))

\* C14 witness: the second rule's predicate holds and its search finds nothing,
\* the third rule fires on an entry whose fused score is below 0.85, and the
\* line is emitted with 0.85 and AUTO_OK
C14_NextRuleRaisedTo85 ==
    /\ Returned("alias_override")
    /\ RuleHolds(2)
    /\ RuleFinds(2) = {}
    /\ RuleFires(3)
    /\ RLt(ForcedScores(FirstOf(RuleFinds(3))).final_score, R(85, 100))
    /\ last_call.result.final_score = R(85, 100)
    /\ last_call.result.item_code = T_Z9
    /\ last_call.flag = "AUTO_OK"

\* the line of the scenario: the abbreviated name from the supplier with a
\* purchase record, unit price 1.05, ten units, no bonus, list price 2.10, tax 0
ScenarioLine ==
    [Line(T_Paracet500MgTablets20s, T_AlMaqamLLC, R(21, 10)) EXCEPT
        !.Unit_Price = R(105, 100)]

\* C15: on the scenario's line, catalog and empty store the engine reports
\* dosage and form as matching (bonus 0.3 + 0.1), cost score 1.0, list-price
\* score 1.0, code P1 and a final score of at least 0.80, tier AUTO_OK.
C15_ScenarioAutoOk ==
    (Returned("elite_line") /\ last_call.inv_row = ScenarioLine
        /\ last_call.store = <<>>) =>
        /\ compute_similarity_scores(ScenarioLine.Invoice_Item_Name,
               ItemParacetamol.name).component_bonus = R(2, 5)
        /\ last_call.result.cost_score = One
        /\ last_call.result.mrp_score = One
        /\ last_call.row.Suggested_Item_Code = T_P1
        /\ RLe(R(80, 100), last_call.result.final_score)
        /\ last_call.row.Flag_AUTO_OK_or_CHECK = "AUTO_OK"

\* the item name of a line normalizes to nothing: missing, or made of
\* punctuation and spaces only
NameIsEmpty(line) ==
    \/ line.Invoice_Item_Name = NaN
    \/ \A i \in DOMAIN line.Invoice_Item_Name :
          line.Invoice_Item_Name[i] \in CleanPunct \cup Whitespace

\* C16: every step of the matching pass consumes the next line and appends
\* exactly one record for it, after the records of the earlier lines, when its
\* normalized name is not empty, and appends nothing when it is empty.
C16_OneRecordPerNamedLine ==
    [][(pc = "lines" /\ engine = "elite" /\ invoice_input # <<>>) =>
          /\ invoice_input' = Tail(invoice_input)
          /\ IF NameIsEmpty(Head(invoice_input))
             THEN rows' = rows
             ELSE /\ Len(rows') = Len(rows) + 1
                  /\ SubSeq(rows', 1, Len(rows)) = rows
                  /\ rows'[Len(rows')].Invoice_Item_Name =
                        Head(invoice_input).Invoice_Item_Name
                  /\ rows'[Len(rows')].Supplier_Name =
                        Head(invoice_input).Supplier_Name]_vars

\* C16 witness: the end of a pass over five lines, two of them without a name:
\* three records, for the line with rejected cells, the line no candidate is
\* retrieved for (no suggested code) and the line with blank cells, in order
C16_FiveLinesThreeRecords ==
    /\ pc = "lines"
    /\ engine = "elite"
    /\ invoice_input = <<>>
    /\ stats_counters.total = 5
    /\ Len(rows) = 3
    /\ rows[1].Invoice_Item_Name = T_Panadol
    /\ rows[1].Supplier_Name = T_Acme
    /\ rows[2].Invoice_Item_Name = T_DoseOnly
    /\ rows[2].Suggested_Item_Code = NULL
    /\ rows[3].Supplier_Name = T_AlMaqam

\* the corrected code of a row names an item of the recorded call's catalog
KnownCode(row) ==
    \E i \in DOMAIN last_call.master :
        last_call.master[i].code = row.Corrected_Item_Code

\* a row states a correction: a corrected code, other than the suggested one
StatesCorrection(row) ==
    /\ row.Corrected_Item_Code # NaN
    /\ row.Corrected_Item_Code # row.Suggested_Item_Code

\* the recorded call's batch without the corrections to unknown codes
BatchWithoutUnknown ==
    [last_call.file EXCEPT !.rows =
        SelectSeq(@, LAMBDA row : ~StatesCorrection(row) \/ KnownCode(row))]

\* C17: a correction whose corrected code is not in the catalog writes no audit
\* entry and no learned mapping and is not counted, and the batch leaves the
\* tables and the count it would leave without that row.
C17_UnknownCodeSkipped ==
    Returned("process_corrections_file") =>
        LET known == SelectSeq(BatchWithoutUnknown.rows, StatesCorrection)
            without == process_corrections_file(last_call.store.table,
                           last_call.store.history, BatchWithoutUnknown,
                           last_call.master)
        IN  /\ last_call.result.table = without.table
            /\ last_call.result.history = without.history
            /\ last_call.result.count = without.count
            /\ last_call.result.count = Len(known)
            /\ Len(last_call.result.history) =
                  Len(last_call.store.history) + Len(known)
            /\ \A i \in DOMAIN last_call.result.history :
                  i > Len(last_call.store.history) =>
                      \E k \in DOMAIN known :
                          last_call.result.history[i].corrected_item_code
                              = known[k].Corrected_Item_Code
            /\ \A i \in DOMAIN last_call.result.table :
                  \E j \in DOMAIN last_call.master :
                      last_call.master[j].code
                          = last_call.result.table[i].master_item_code
                  \/ i \in DOMAIN last_call.store.table

\* C17 witness: a batch of three corrections, the middle one to an unknown
\* code, ingested into a store that already holds a mapping: two are counted
\* and two audit entries are written, one for the row before and one for the
\* row after it
C17_MiddleRowSkipped ==
    /\ Returned("process_corrections_file")
    /\ last_call.file.rows = <<K_Acme, K_Unknown, K_ToZ9>>
    /\ last_call.master = <<ItemP1, ItemZ9>>
    /\ last_call.store.table # <<>>
    /\ last_call.result.count = 2
    /\ Len(last_call.result.history) = Len(last_call.store.history) + 2
    /\ last_call.result.history[Len(last_call.result.history)].corrected_item_code
          = T_Z9
    /\ last_call.result.history[Len(last_call.result.history) - 1].corrected_item_code
          = T_P1

\* C18: a batch whose rows all have the corrected code equal to the suggested
\* one, or no corrected code, leaves learned mappings and correction history
\* as they were and reports zero corrections.
C18_NoOpBatchChangesNothing ==
    (Returned("process_corrections_file")
        /\ \A i \in DOMAIN last_call.file.rows :
              ~StatesCorrection(last_call.file.rows[i])) =>
        /\ last_call.result.table = last_call.store.table
        /\ last_call.result.history = last_call.store.history
        /\ last_call.result.count = 0

\* C18 witness: a batch of three such rows ingested into a store that holds
\* mappings and audit entries, which are still there
C18_ThreeNoOpRows ==
    /\ Returned("process_corrections_file")
    /\ last_call.file.rows = <<K_NoOp, K_Missing, K_NoOp>>
    /\ last_call.store.table # <<>>
    /\ last_call.store.history # <<>>
    /\ last_call.result.table = last_call.store.table
    /\ last_call.result.history = last_call.store.history
    /\ last_call.result.count = 0

\* C19: the tax cell becomes a rate: 0 when it is missing, not a number, zero
\* or negative, itself when in (0, 1], a hundredth of itself above 1; the
\* adjusted price of a positive quoted price is quoted / (1 + rate) for a
\* positive rate and the quoted price for rate 0; a quoted price that is not a
\* number, or not positive, has no adjusted price.
C19_TaxAdjustedPrice ==
    Returned("adjust_mrp_for_vat") =>
        LET vat == last_call.vat_raw
            quoted == last_call.mrp_invoice
            rate == last_call.vat_rate
        IN  /\ (vat.d <= 0 \/ vat.n <= 0) => rate = Zero
            /\ (vat.d > 0 /\ vat.n > 0 /\ vat.n <= vat.d) => rate = vat
            /\ (vat.d > 0 /\ vat.n > vat.d) => rate = R(vat.n, 100 * vat.d)
            /\ (vat = R(5, 100) \/ vat = R(5, 1)) => rate = R(5, 100)
            /\ (quoted.d > 0 /\ quoted.n > 0 /\ rate.n > 0) =>
                  last_call.result
                      = R(quoted.n * rate.d, quoted.d * (rate.d + rate.n))
            /\ (quoted.d > 0 /\ quoted.n > 0 /\ rate.n = 0) =>
                  last_call.result = quoted
            /\ (quoted = NoNum \/ (quoted.d > 0 /\ quoted.n <= 0)) =>
                  last_call.result = NoNum

\* C19 witness: 105 quoted at a tax of 5 is adjusted to 100 at rate 0.05
C19_Quoted105AtTax5 ==
    /\ Returned("adjust_mrp_for_vat")
    /\ last_call.mrp_invoice = R(105, 1)
    /\ last_call.vat_raw = R(5, 1)
    /\ last_call.vat_rate = R(1, 20)
    /\ last_call.result = R(100, 1)

\* the purchase history holds a record of the recorded call's candidate from
\* the recorded call's supplier; from any supplier
BoughtFromSupplier ==
    \E r \in PurchaseRows :
        /\ clean(r.Particulars) = clean(last_call.candidate.name)
        /\ simplify_supplier(r.Supplier) = simplify_supplier(last_call.supplier)
BoughtFromAnyone ==
    \E r \in PurchaseRows :
        clean(r.Particulars) = clean(last_call.candidate.name)

\* C20: the supplier score of a candidate is 1.0 when the purchase history
\* holds a record of it from the line's supplier, else 0.5 when it holds a
\* record of it from any supplier, else 0.0.
C20_SupplierScoreByHistory ==
    Returned("compute_supplier_score") =>
        /\ last_call.result \in {Zero, R(1, 2), One}
        /\ last_call.result =
              IF BoughtFromSupplier THEN One
              ELSE IF BoughtFromAnyone THEN R(1, 2)
              ELSE Zero

\* C20 witness: a candidate bought before, but from another supplier: 0.5
C20_BoughtFromAnotherSupplier ==
    /\ Returned("compute_supplier_score")
    /\ BoughtFromAnyone
    /\ ~BoughtFromSupplier
    /\ last_call.result = R(1, 2)

\* row j of the recorded report is a header row: no item, a text in the date
\* field, no bill number
HeaderRowAt(j) ==
    LET row == last_call.purch_raw[j]
    IN  /\ row.Particulars = NaN
        /\ row.Date \notin {NaN, DateValue}
        /\ row.Bill = NaN

\* the header rows before row i
HeadersBefore(i) == { j \in 1..(i - 1) : HeaderRowAt(j) }

\* C21: every row that is not a header row is attributed to the supplier named
\* by the nearest header row before it, to none when no header row precedes
\* it; header rows yield no purchase record, and every row with an item does.
C21_SupplierCarriedForward ==
    Returned("header_scan") =>
        /\ Len(last_call.scanned) = Len(last_call.purch_raw)
        /\ \A i \in DOMAIN last_call.purch_raw :
              ~HeaderRowAt(i) =>
                  last_call.scanned[i].Supplier =
                      IF HeadersBefore(i) = {} THEN NULL
                      ELSE LET j == CHOOSE h \in HeadersBefore(i) :
                                       \A g \in HeadersBefore(i) : g <= h
                           IN  Strip(last_call.purch_raw[j].Date)
        /\ \A k \in DOMAIN last_call.purch :
              /\ last_call.purch[k].Particulars # NaN
              /\ \E i \in DOMAIN last_call.purch_raw :
                    /\ ~HeaderRowAt(i)
                    /\ last_call.purch[k] = last_call.scanned[i]
        /\ Len(last_call.purch) =
              Cardinality({ i \in DOMAIN last_call.purch_raw :
                              last_call.purch_raw[i].Particulars # NaN })

\* C21 witness: an item row before any header, then a header, then an item
\* row: two purchase records, the first without supplier, the second from the
\* supplier the header names
C21_ItemHeaderItem ==
    /\ Returned("header_scan")
    /\ Len(last_call.purch_raw) = 3
    /\ ~HeaderRowAt(1) /\ HeaderRowAt(2) /\ ~HeaderRowAt(3)
    /\ Len(last_call.purch) = 2
    /\ last_call.purch[1].Supplier = NULL
    /\ last_call.purch[2].Supplier = T_Acme

\* the records the elite pass can emit for a line, given the catalog and the
\* learning store: one per row the lookup may fetch and per retrieval order
LineRecords(inv_row, m, store) ==
    LET inv_name_clean == clean(inv_row.Invoice_Item_Name)
        supplier_clean == simplify_supplier(inv_row.Supplier_Name)
        mrp_invoice_adj == adjust_mrp_for_vat(inv_row.MRP_Invoice, inv_row.VAT)
        effective_unit_price ==
            EffectiveUnitPrice(inv_row.Qty, inv_row.Bonus, inv_row.Unit_Price)
        record(lrow, candidate_indices) ==
            LET learned == lookup_learned_mapping(store, lrow)
                usable == LearnedUsable(m, learned)
                best == IF usable
                        THEN LearnedBest(learned,
                                 m[FirstOf(MasterMatch(m, learned.item_code))],
                                 supplier_clean, effective_unit_price,
                                 mrp_invoice_adj)
                        ELSE match_item(m, candidate_indices,
                                 inv_row.Invoice_Item_Name, supplier_clean,
                                 effective_unit_price, mrp_invoice_adj)
            IN  [Suggested_Item_Code |-> best.item_code,
                 Supplier_Score |-> Round3(best.supplier_score),
                 MRP_Score |-> Round3(best.mrp_score),
                 Cost_Score |-> Round3(best.cost_score),
                 Final_Score |-> Round3(best.final_score),
                 Flag_AUTO_OK_or_CHECK |-> Flag(best.final_score),
                 Learned_Match |-> IF learned.learned THEN "YES" ELSE "NO"]
    IN  { record(lrow, candidate_indices) :
            lrow \in LookupRows(store, inv_name_clean, supplier_clean,
                                LEARNING_CONFIDENCE_THRESHOLD),
            candidate_indices \in CandidateOrders(m, inv_row.Invoice_Item_Name) }

\* the columns of an emitted record that LineRecords lists
Decision(row) ==
    [Suggested_Item_Code |-> row.Suggested_Item_Code,
     Supplier_Score |-> row.Supplier_Score,
     MRP_Score |-> row.MRP_Score,
     Cost_Score |-> row.Cost_Score,
     Final_Score |-> row.Final_Score,
     Flag_AUTO_OK_or_CHECK |-> row.Flag_AUTO_OK_or_CHECK,
     Learned_Match |-> row.Learned_Match]

\* the lookup for a line can fetch one row only (or none)
LookupDecided(inv_row, store) ==
    Cardinality(LookupRows(store, clean(inv_row.Invoice_Item_Name),
                           simplify_supplier(inv_row.Supplier_Name),
                           LEARNING_CONFIDENCE_THRESHOLD)) = 1

\* C22: a step of the matching pass leaves learned mappings and correction
\* history as they are, and the record it emits is a function of the line,
\* the catalog and the store alone: neither the records emitted before nor the
\* position of the line in the sheet enter it.
C22_PassOnlyReadsStore ==
    [][(pc = "lines" /\ engine = "elite" /\ invoice_input # <<>>) =>
          LET inv_row == Head(invoice_input)
              records == LineRecords(inv_row, master, learned_mappings)
          IN  /\ learned_mappings' = learned_mappings
              /\ correction_history' = correction_history
              /\ master' = master
              /\ rows' # rows => Decision(rows'[Len(rows')]) \in records
              /\ LookupDecided(inv_row, learned_mappings) =>
                    Cardinality(records) = 1]_vars

\* C22 witness: a pass over a store that holds a mapping has emitted a record
\* resolved from it and another from the ensemble, and the store is as loaded
C22_LearnedAndEnsembleRecords ==
    /\ pc = "lines"
    /\ engine = "elite"
    /\ learned_mappings # <<>>
    /\ \A i \in DOMAIN learned_mappings : learned_mappings[i].times_seen = 1
    /\ \E i, j \in DOMAIN rows :
          /\ rows[i].Learned_Match = "YES"
          /\ rows[j].Learned_Match = "NO"

\* the sum of times_confirmed over the first n learned mappings
RECURSIVE ConfirmedUpTo(_)
ConfirmedUpTo(n) ==
    IF n = 0 THEN 0
    ELSE learned_mappings[n].times_confirmed + ConfirmedUpTo(n - 1)

\* C23: whatever writes of ingestion have been committed, with or without a
\* crash between them, correction_history has at least as many rows as the
\* times_confirmed of all learned mappings add up to.
C23_AuditNeverBehindMappings ==
    Len(correction_history) >= ConfirmedUpTo(Len(learned_mappings))

\* C23 witness: after a crash between the two writes of a correction, with
\* mappings stored by earlier corrections, the audit table is one entry ahead
C23_AuditAheadAfterCrash ==
    /\ pc = "idle"
    /\ last_call = NoCall
    /\ learned_mappings # <<>>
    /\ Len(correction_history) = ConfirmedUpTo(Len(learned_mappings)) + 1


\* the stored mappings of the key of row i that meet min_confidence
MappingsOfKey(i, min_confidence) ==
    { j \in DOMAIN learned_mappings :
        /\ learned_mappings[j].invoice_pattern_clean = learned_mappings[i].invoice_pattern_clean
        /\ learned_mappings[j].supplier_pattern = learned_mappings[i].supplier_pattern
        /\ learned_mappings[j].confidence >= min_confidence }

\* the mappings of the key of row i with the highest confidence of the key
Authoritative(i, min_confidence) ==
    { j \in MappingsOfKey(i, min_confidence) :
        \A k \in MappingsOfKey(i, min_confidence) :
            learned_mappings[j].confidence >= learned_mappings[k].confidence }

\* C24: after any sequence of ingestions, each key (name, supplier) with a
\* mapping that meets min_confidence has exactly one mapping of the highest
\* confidence, and a lookup of the key can return only one catalog code.
C24_OneAuthoritativeMapping ==
    \A i \in DOMAIN learned_mappings :
        /\ Cardinality(Authoritative(i, LEARNING_CONFIDENCE_THRESHOLD)) <= 1
        /\ Cardinality({ learned_mappings[r].master_item_code :
               r \in LookupFirst(learned_mappings,
                                 learned_mappings[i].invoice_pattern_clean,
                                 learned_mappings[i].supplier_pattern,
                                 LEARNING_CONFIDENCE_THRESHOLD) }) <= 1


\* the business signals the ensemble's scorer computes for a line and a
\* catalog item, as the record's columns hold them
ScorerSignals(inv_row, item) ==
    LET supplier_clean == simplify_supplier(inv_row.Supplier_Name)
        mrp_invoice_adj == adjust_mrp_for_vat(inv_row.MRP_Invoice, inv_row.VAT)
        effective_unit_price ==
            EffectiveUnitPrice(inv_row.Qty, inv_row.Bonus, inv_row.Unit_Price)
        cand == MatchCandidate(inv_row.Invoice_Item_Name, supplier_clean,
                               effective_unit_price, mrp_invoice_adj, item)
    IN  [Supplier_Score |-> Round3(cand.supplier_score),
         MRP_Score |-> Round3(cand.mrp_score),
         Cost_Score |-> Round3(cand.cost_score)]

\* the catalog row of a code
ItemOfCode(code) == master[FirstOf(MasterMatch(master, code))]

\* C25: the record of a line resolved from the learning store reports, for
\* the learned catalog item, the supplier, cost and list-price scores the
\* ensemble's business signal scorer computes for that line and item.
C25_LearnedSignalsAsScorer ==
    [][(pc = "lines" /\ engine = "elite" /\ invoice_input # <<>>
        /\ rows' # rows /\ rows'[Len(rows')].decided_by = "learned") =>
          LET row == rows'[Len(rows')]
              signals == ScorerSignals(Head(invoice_input),
                                       ItemOfCode(row.Suggested_Item_Code))
          IN  /\ row.Supplier_Score = signals.Supplier_Score
              /\ row.Cost_Score = signals.Cost_Score
              /\ row.MRP_Score = signals.MRP_Score]_vars

\* the same for the cost and list-price scores alone
C25_LearnedCostAndMrpAsScorer ==
    [][(pc = "lines" /\ engine = "elite" /\ invoice_input # <<>>
        /\ rows' # rows /\ rows'[Len(rows')].decided_by = "learned") =>
          LET row == rows'[Len(rows')]
              signals == ScorerSignals(Head(invoice_input),
                                       ItemOfCode(row.Suggested_Item_Code))
          IN  /\ row.Cost_Score = signals.Cost_Score
              /\ row.MRP_Score = signals.MRP_Score]_vars


\* the triples (normalized name, supplier, catalog code) the calls can store
Triples ==
    { <<n, s, item.code>> : n \in ApiNames, s \in ApiStoredSuppliers, item \in ApiItems }

\* the upserts a table accounts for a triple: times_confirmed of its row, 0
\* without a row
UpsertsOf(table, t) ==
    LET ids == ExistingIds(table, t[1], t[3], t[2])
    IN  IF ids = {} THEN 0 ELSE table[FirstOf(ids)].times_confirmed

\* one row per stored triple, with times_seen equal to times_confirmed
OneRowPerTriple ==
    \A i \in DOMAIN learned_mappings :
        /\ ExistingIds(learned_mappings, learned_mappings[i].invoice_pattern_clean,
                       learned_mappings[i].master_item_code,
                       learned_mappings[i].supplier_pattern) = {i}
        /\ learned_mappings[i].times_seen = learned_mappings[i].times_confirmed
        /\ learned_mappings[i].times_confirmed >= 1

\* a step that changes the store is an upsert: it adds one to the count of
\* the triple of the call and leaves the count of every other triple
UpsertCountsOne ==
    learned_mappings' # learned_mappings =>
        /\ last_call'.op = "add"
        /\ \A t \in Triples :
              UpsertsOf(learned_mappings', t) =
                  UpsertsOf(learned_mappings, t)
                  + (IF t = <<last_call'.invoice_pattern_clean,
                              last_call'.supplier_pattern,
                              last_call'.master_item_code>> THEN 1 ELSE 0)

\* C26: from the empty store, the store holds at most one row per triple
\* (name, supplier, catalog code), null suppliers included, and the row's
\* times_seen and times_confirmed both count the upserts of the triple: 0
\* without a row, one more with every upsert of the triple, unchanged by the
\* upserts of other triples.
C26_OneRowCountingUpserts ==
    /\ learned_mappings = <<>>
    /\ []OneRowPerTriple
    /\ [][UpsertCountsOne]_vars

\* C26 witness: a triple with a null supplier was upserted twice and another
\* triple of the same name once
C26_NullSupplierUpsertedTwice ==
    \E i, j \in DOMAIN learned_mappings :
        /\ learned_mappings[i].supplier_pattern = NULL
        /\ learned_mappings[i].times_confirmed = 2
        /\ learned_mappings[i].times_seen = 2
        /\ i # j
        /\ learned_mappings[j].invoice_pattern_clean = learned_mappings[i].invoice_pattern_clean
        /\ learned_mappings[j].times_confirmed = 1


\* a fused score lies in [0, 1]
InUnit(x) == RLe(Zero, x) /\ RLe(x, One)

\* a final score of a candidate without purchase history stays below the
\* AUTO_OK threshold
NeverAutoOk(final_score, has_mrp) ==
    /\ RLe(final_score, IF has_mrp THEN R(696, 1000) ELSE R(634, 1000))
    /\ RLt(final_score, R(80, 100))
    /\ Flag(final_score) # "AUTO_OK"

\* C27: the component bonus is at most 0.4 and the name score at most 0.88; a
\* candidate with supplier score 0.0 is fused to at most 0.696 with a list
\* price and 0.634 without one, below the 0.80 of AUTO_OK; every final score
\* of the ensemble lies in [0, 1].
C27_NoHistoryNeverAutoOk ==
    /\ Returned("similarity") =>
          /\ RLe(last_call.name_scores.component_bonus, R(2, 5))
          /\ RLe(NameOf(last_call.name_scores), R(88, 100))
          /\ InUnit(last_call.result)
          /\ last_call.supplier_score = Zero =>
                NeverAutoOk(last_call.result, last_call.has_mrp)
    /\ Returned("match_candidate") =>
          /\ InUnit(last_call.result.final_score)
          /\ last_call.result.supplier_score = Zero =>
                NeverAutoOk(last_call.result.final_score, last_call.result.has_mrp)
    /\ (Returned("match_item") /\ last_call.result.item_code # NULL) =>
          /\ InUnit(last_call.result.final_score)
          /\ last_call.result.supplier_score = Zero =>
                NeverAutoOk(last_call.result.final_score, last_call.result.has_mrp)

\* C27 witness: a candidate without purchase history with every other signal
\* at its maximum, the bonus at its cap, is fused to 0.696
C27_BestWithoutHistory ==
    /\ Returned("similarity")
    /\ last_call.supplier_score = Zero
    /\ last_call.has_mrp
    /\ last_call.name_scores.component_bonus = R(2, 5)
    /\ NameOf(last_call.name_scores) = R(88, 100)
    /\ last_call.result = R(696, 1000)
    /\ Flag(last_call.result) = "CHECK"


\* the record is the one of catalog row c: every field is the value of that
\* row for the recorded line
RecordOf(r, c) ==
    LET inv_row == last_call.inv_row
        supplier_clean == simplify_supplier(inv_row.Supplier_Name)
        mrp_invoice_adj == adjust_mrp_for_vat(inv_row.MRP_Invoice, inv_row.VAT)
        effective_unit_price ==
            EffectiveUnitPrice(inv_row.Qty, inv_row.Bonus, inv_row.Unit_Price)
    IN  /\ r.item_code = c.code
        /\ r.item_name = c.name
        /\ r.mrp_master = c.mrp_master
        /\ r.name_scores = compute_similarity_scores(inv_row.Invoice_Item_Name, c.name)
        /\ r.supplier_score = compute_supplier_score(clean(c.name), supplier_clean)
        /\ r.has_mrp = HasMrp(mrp_invoice_adj, c.mrp_master)
        /\ r.mrp_score = (IF r.has_mrp
                          THEN compute_mrp_score(mrp_invoice_adj, c.mrp_master)
                          ELSE Zero)
        /\ r.cost_score = compute_cost_score(effective_unit_price, c.brate)
        /\ r.last_sup = LastSup(clean(c.name), supplier_clean)

\* C28: after a scan of any candidate list the record match_item returns
\* holds the code, name, list price, name scores, business scores, has_mrp
\* and last supplier of one and the same candidate, and its final_score is
\* compute_final_score of the signals the record reports.
C28_RecordOfOneCandidate ==
    (Returned("match_item") /\ last_call.candidate_indices # <<>>) =>
        LET r == last_call.result
        IN  /\ \E k \in DOMAIN last_call.candidate_indices :
                  RecordOf(r, last_call.master[last_call.candidate_indices[k]])
            /\ r.final_score = compute_final_score(r.name_scores, r.supplier_score,
                                   r.mrp_score, r.cost_score, r.has_mrp)

\* C28 witness: the returned record is of a candidate that replaced an
\* earlier, worse one with another supplier score and another last supplier
C28_LaterCandidateReplacedBest ==
    /\ Returned("match_item")
    /\ Len(last_call.candidate_indices) >= 2
    /\ last_call.result.item_code = EvaluatedAt(2).item_code
    /\ ScoreBelow(EvaluatedAt(1).final_score, EvaluatedAt(2).final_score)
    /\ EvaluatedAt(1).supplier_score # EvaluatedAt(2).supplier_score
    /\ EvaluatedAt(1).last_sup # EvaluatedAt(2).last_sup
    /\ EvaluatedAt(1).name_scores # EvaluatedAt(2).name_scores


\* C29: a lookup for supplier S never returns a mapping stored under a
\* supplier that is neither null nor S, whether S is a supplier, empty or
\* absent.
C29_NoOtherSuppliersMapping ==
    (last_call.op = "lookup" /\ last_call.row # 0) =>
        \/ learned_mappings[last_call.row].supplier_pattern = NULL
        \/ learned_mappings[last_call.row].supplier_pattern = last_call.supplier_clean

\* the same for the lookups with a supplier that is not empty
C29_NoOtherSuppliersMappingWhenGiven ==
    (last_call.op = "lookup" /\ last_call.row # 0 /\ SupplierGiven) =>
        \/ learned_mappings[last_call.row].supplier_pattern = NULL
        \/ learned_mappings[last_call.row].supplier_pattern = last_call.supplier_clean


\* the purchase records of the recorded call's candidate that a header row
\* attributed to the recorded call's supplier
AttributedToSupplier ==
    { r \in PurchaseRows :
        /\ clean(r.Particulars) = clean(last_call.candidate.name)
        /\ ~IsNa(r.Supplier)
        /\ simplify_supplier(r.Supplier) = simplify_supplier(last_call.supplier) }

\* C30: a supplier score of 1.0 is given only to a line whose normalized
\* supplier is not empty, for a candidate with a purchase record that a header
\* row attributed to that supplier; a record without supplier attribution
\* gives no line the score 1.0, a line with an empty supplier included.
C30_FullScoreNeedsAttributedSupplier ==
    (Returned("compute_supplier_score") /\ last_call.result = One) =>
        /\ simplify_supplier(last_call.supplier) # <<>>
        /\ AttributedToSupplier # {}

\* the same for the lines whose normalized supplier is not empty
C30_FullScoreNeedsAttributionWhenGiven ==
    (Returned("compute_supplier_score") /\ last_call.result = One
        /\ simplify_supplier(last_call.supplier) # <<>>) =>
        AttributedToSupplier # {}

====
